----------------------------- MODULE Checkpoint -----------------------------
(***************************************************************************)
(* Checkpoint and resume of the PostgreSQL stream: the run manifest and    *)
(* span journal (exporter/sinks/run_ledger), the COPY sink                 *)
(* (exporter/sinks/postgres), the span sink that skips and verifies the    *)
(* committed prefix, and the order in which the orchestrator calls them    *)
(* (app/orchestrator pumpTransfers, finalizeExports).                      *)
(*                                                                         *)
(* Every SQL statement commits on its own, so one action is one statement. *)
(* The process may die between any two of them; a server crash also        *)
(* empties the UNLOGGED transactions table; the table may be changed out   *)
(* of band between runs; and the program may be rebuilt, after which it    *)
(* generates another stream from the same configuration.                   *)
(* The table is a set: its row_seq are distinct, and the queries aggregate *)
(* or order by row_seq.                                                    *)
(***************************************************************************)
EXTENDS Integers, Sequences, FiniteSets, SequencesExt

CONSTANTS Configs,      \* config hashes
          Builds,       \* versions of the generator
          Stream,       \* Stream[c][b]: the spans generated, each a sequence of rows
          Absent,       \* the table does not exist: a set that is no table
          MaxRuns,      \* bound: manifest rows
          MaxKills,     \* bound: process deaths
          MaxServer,    \* bound: server crashes
          MaxTamper     \* bound: out-of-band changes of the table

\* The rows, and what a row becomes that is changed out of band.
StreamRows == UNION {UNION {UNION {ToSet(Stream[c][b][k]) : k \in DOMAIN Stream[c][b]}
                              : b \in Builds} : c \in Configs}
Rows == StreamRows \cup {"tampered"}
Ids == 1 .. MaxRuns
TableRow == [seq : Nat \ {0}, span : Nat, row : Rows, by : Ids]

ASSUME StreamAssumption ==
  \A c \in Configs, b \in Builds :
    Stream[c][b] \in Seq(Seq(Rows)) /\ Stream[c][b] # << >>
ASSUME AbsentAssumption == Absent \notin SUBSET TableRow
ASSUME BoundsAssumption == {MaxRuns, MaxKills, MaxServer, MaxTamper} \subseteq Nat

VARIABLES
  manifest,  \* pl_run_manifest: [cfg, status] by id
  journal,   \* pl_run_spans: the set of [id, index, digest]
  table,     \* transactions: the set of its rows [seq, span, row, by], or Absent
  pc,        \* the statement the process executes next; see Down when there is none
  cfg,       \* its configuration ...
  build,     \* ... and its generator
  plan,      \* the ResumePlan, or NoPlan
  runId,     \* pgManifestId
  span,      \* spans streamed so far
  rows,      \* sinks::Postgres::rows_, the last row_seq written
  faults,    \* faults so far, by kind
  changed    \* ids of the runs whose durable rows something else has changed

vars == <<manifest, journal, table, pc, cfg, build, plan, runId, span, rows,
          faults, changed>>
database == <<manifest, journal, table>>
process == <<cfg, build, plan, runId, span, rows>>

NoPlan == [id |-> 0, spans |-> << >>]
Down == {"off", "threw"}   \* no process; the last one exited or died, or threw
RowCount(spans) == Len(FlattenSeq(spans))

Init ==
  /\ manifest = << >> /\ journal = {} /\ table = Absent
  /\ pc = "off" /\ cfg \in Configs /\ build \in Builds
  /\ plan = NoPlan /\ runId = 0 /\ span = 0 /\ rows = 0
  /\ faults = [kill |-> 0, server |-> 0, tamper |-> 0]
  /\ changed = {}

-----------------------------------------------------------------------------
\* RunLedger.  A span's digest is modelled by the rows it digests.

\* WHERE status = 'running' AND config_hash = ...
RunningWith(c) ==
  {i \in DOMAIN manifest : manifest[i].status = "running" /\ manifest[i].cfg = c}

\* findResumable: the journal of the latest such run, if it is a contiguous
\* prefix that holds at least one row.
FindResumable(c) ==
  IF RunningWith(c) = {} THEN NoPlan
  ELSE LET id == CHOOSE i \in RunningWith(c) : \A j \in RunningWith(c) : j <= i
           recs == {r \in journal : r.id = id}
           n == Cardinality(recs)
       IN  IF {r.index : r \in recs} # 0 .. n - 1 THEN NoPlan
           ELSE LET spans == [k \in 1 .. n |->
                                (CHOOSE r \in recs : r.index = k - 1).digest]
                IN  IF RowCount(spans) = 0 THEN NoPlan
                    ELSE [id |-> id, spans |-> spans]

\* The rows of the table that belong to span k.
InSpan(k) == {r \in table : r.span = k}

\* prepareResume's count, max, count(DISTINCT) and per-span profile queries.
\* string_agg over GROUP BY lists only the spans that have rows; the expected
\* string lists every span of the plan.
Profile == {<<k, Cardinality(InSpan(k))>> :
              k \in {r.span : r \in table}}
Expected(spans) == {<<k - 1, Len(spans[k])>> : k \in DOMAIN spans}

Matches(spans) ==
  LET n == RowCount(spans)
      seqs == {r.seq : r \in table}
  IN  /\ Cardinality(table) = n
      /\ \A s \in seqs : s <= n
      /\ n \in seqs
      /\ Cardinality(seqs) = n
      /\ Profile = Expected(spans)

-----------------------------------------------------------------------------
\* pumpTransfers: choose between resuming and rewriting.

\* The operator starts the program.
Launch ==
  /\ pc \in Down
  /\ Len(manifest) < MaxRuns
  /\ cfg' \in Configs /\ build' \in Builds
  /\ plan' = NoPlan /\ runId' = 0 /\ span' = 0 /\ rows' = 0
  /\ pc' = "find"
  /\ UNCHANGED <<database, faults, changed>>

Find ==
  /\ pc = "find"
  /\ plan' = FindResumable(cfg)
  /\ pc' = IF plan' = NoPlan THEN "supersede" ELSE "trim"
  /\ UNCHANGED <<database, cfg, build, runId, span, rows, faults, changed>>

\* prepareResume: DELETE ... WHERE row_seq > the plan's rows.
Trim ==
  /\ pc = "trim"
  /\ IF table = Absent
     THEN pc' = "fail" /\ UNCHANGED table
     ELSE /\ table' = {r \in table : r.seq <= RowCount(plan.spans)}
          /\ pc' = "match"
  /\ UNCHANGED <<manifest, journal, process, faults, changed>>

\* (mutant: a damaged table is an error instead of a rewrite)
MatchOrThrow ==
  /\ pc = "match"
  /\ IF Matches(plan.spans)
     THEN pc' = "stream" /\ runId' = plan.id /\ rows' = RowCount(plan.spans)
     ELSE pc' = "threw" /\ UNCHANGED <<runId, rows>>
  /\ UNCHANGED <<database, cfg, build, plan, span, faults, changed>>

Match ==
  /\ pc = "match"
  /\ IF Matches(plan.spans)
     THEN /\ pc' = "stream"
          /\ runId' = plan.id
          /\ rows' = RowCount(plan.spans)   \* startRowSeq
     ELSE pc' = "fail" /\ UNCHANGED <<runId, rows>>
  /\ UNCHANGED <<database, cfg, build, plan, span, faults, changed>>

\* markFailed: UPDATE, then pruneSpans.
MarkFailed ==
  /\ pc = "fail"
  /\ manifest' = [manifest EXCEPT ![plan.id].status = "failed"]
  /\ pc' = "pruneFailed"
  /\ UNCHANGED <<journal, table, process, faults, changed>>

PruneFailed ==
  /\ pc = "pruneFailed"
  /\ journal' = {r \in journal : r.id # plan.id}
  /\ plan' = NoPlan
  /\ pc' = "supersede"
  /\ UNCHANGED <<manifest, table, cfg, build, runId, span, rows, faults, changed>>

\* (mutant: only the runs of this configuration are superseded)
SupersedeOwn ==
  /\ pc = "supersede"
  /\ manifest' = [i \in DOMAIN manifest |->
                    IF i \in RunningWith(cfg)
                    THEN [manifest[i] EXCEPT !.status = "superseded"]
                    ELSE manifest[i]]
  /\ pc' = "sweep"
  /\ UNCHANGED <<journal, table, process, faults, changed>>

\* supersedeRunning: UPDATE, then DELETE of every journal row whose run is
\* not running.
Supersede ==
  /\ pc = "supersede"
  /\ manifest' = [i \in DOMAIN manifest |->
                    IF manifest[i].status = "running"
                    THEN [manifest[i] EXCEPT !.status = "superseded"]
                    ELSE manifest[i]]
  /\ pc' = "sweep"
  /\ UNCHANGED <<journal, table, process, faults, changed>>

\* (mutant: the UPDATE alone)
SweepNothing ==
  /\ pc = "sweep"
  /\ pc' = "begin"
  /\ UNCHANGED <<database, process, faults, changed>>

Sweep ==
  /\ pc = "sweep"
  /\ journal' = {r \in journal : manifest[r.id].status = "running"}
  /\ pc' = "begin"
  /\ UNCHANGED <<manifest, table, process, faults, changed>>

BeginRun ==
  /\ pc = "begin"
  /\ manifest' = Append(manifest, [cfg |-> cfg, status |-> "running"])
  /\ runId' = Len(manifest')
  /\ pc' = "drop"
  /\ UNCHANGED <<journal, table, cfg, build, plan, span, rows, faults, changed>>

\* The sink's constructor: DROP TABLE IF EXISTS, CREATE UNLOGGED TABLE.
DropTable ==
  /\ pc = "drop"
  /\ table' = Absent
  /\ pc' = "create"
  /\ UNCHANGED <<manifest, journal, process, faults, changed>>

CreateTable ==
  /\ pc = "create"
  /\ table' = {}
  /\ pc' = "stream"
  /\ UNCHANGED <<manifest, journal, process, faults, changed>>

-----------------------------------------------------------------------------
\* runPipeline: the regenerated spans pass ResumableSpanSink in order.

Spans == Stream[cfg][build]
InPrefix == span < Len(plan.spans)

\* The durable rows the lockstep scan reads for the n-th row of the current span,
\* in row_seq order: those after the rows of the spans already verified.
DurableRows(n) ==
  LET at == RowCount(SubSeq(plan.spans, 1, span)) + n
  IN  {r.row : r \in {x \in table : x.seq = at}}

\* (mutant: the digests alone, no read-back)
DigestReproduces == Spans[span + 1] = plan.spans[span + 1]

\* endSpan and verifyDurable of a committed span.
Reproduces ==
  /\ Spans[span + 1] = plan.spans[span + 1]
  /\ \A n \in DOMAIN Spans[span + 1] : DurableRows(n) = {Spans[span + 1][n]}

VerifySpan ==
  /\ pc = "stream" /\ InPrefix /\ span < Len(Spans)
  /\ Reproduces
  /\ span' = span + 1
  /\ UNCHANGED <<database, pc, cfg, build, plan, runId, rows, faults, changed>>

\* A committed span that does not reproduce, or a stream that ends inside the
\* prefix, throws; main reports it and exits.  The manifest is left as it is.
Mismatch ==
  /\ pc = "stream" /\ InPrefix
  /\ span = Len(Spans) \/ ~Reproduces
  /\ pc' = "threw"
  /\ UNCHANGED <<database, process, faults, changed>>

\* (mutant: row_seq starts again at every span)
CopySpanRestart ==
  /\ pc = "stream" /\ ~InPrefix /\ span < Len(Spans)
  /\ LET s == Spans[span + 1] IN
       /\ table' = table \cup {[seq |-> n, span |-> span, row |-> s[n], by |-> runId] :
                                 n \in DOMAIN s}
       /\ rows' = rows + Len(s)
  /\ pc' = "record"
  /\ UNCHANGED <<manifest, journal, cfg, build, plan, runId, span, faults, changed>>

\* A fresh span: the COPY commits with endSpan ...
CopySpan ==
  /\ pc = "stream" /\ ~InPrefix /\ span < Len(Spans)
  /\ LET s == Spans[span + 1] IN
       /\ table' = table \cup {[seq |-> rows + n, span |-> span, row |-> s[n], by |-> runId] :
                                 n \in DOMAIN s}
       /\ rows' = rows + Len(s)
  /\ pc' = "record"
  /\ UNCHANGED <<manifest, journal, cfg, build, plan, runId, span, faults, changed>>

\* ... and recordSpan commits after it.
RecordSpan ==
  /\ pc = "record"
  /\ journal' = journal \cup
                  {[id |-> runId, index |-> span, digest |-> Spans[span + 1]]}
  /\ span' = span + 1
  /\ pc' = "stream"
  /\ UNCHANGED <<manifest, table, cfg, build, plan, runId, rows, faults, changed>>

FinishStream ==
  /\ pc = "stream" /\ ~InPrefix /\ span = Len(Spans)
  /\ pc' = "finalize"
  /\ UNCHANGED <<database, process, faults, changed>>

\* finalizeExports looks the run up again, on a connection of its own.
Finalize ==
  /\ pc = "finalize"
  /\ plan' = FindResumable(cfg)
  /\ IF plan' = NoPlan
     THEN pc' = "off" /\ UNCHANGED manifest
     ELSE /\ manifest' = [manifest EXCEPT ![plan'.id].status = "complete"]
          /\ pc' = "pruneDone"
  /\ UNCHANGED <<journal, table, cfg, build, runId, span, rows, faults, changed>>

PruneDone ==
  /\ pc = "pruneDone"
  /\ journal' = {r \in journal : r.id # plan.id}
  /\ pc' = "off"
  /\ UNCHANGED <<manifest, table, process, faults, changed>>

-----------------------------------------------------------------------------
\* Faults.

Kill ==
  /\ pc \notin Down /\ faults.kill < MaxKills
  /\ faults' = [faults EXCEPT !.kill = @ + 1]
  /\ pc' = "off"
  /\ UNCHANGED <<database, process, changed>>

Authors == IF table = Absent THEN {} ELSE {r.by : r \in table}

\* Crash recovery empties UNLOGGED tables.  The process loses its connections
\* and dies, unless it is between two of them.
ServerCrash ==
  /\ faults.server < MaxServer
  /\ faults' = [faults EXCEPT !.server = @ + 1]
  /\ changed' = changed \cup Authors
  /\ table' = IF table = Absent THEN Absent ELSE {}
  /\ pc' = IF pc \in Down \cup {"finalize"} THEN pc ELSE "off"
  /\ UNCHANGED <<manifest, journal, process>>

\* Between runs: the table is dropped, a row is deleted, or a row is changed in
\* a field that the read-back decodes.
Tamper ==
  /\ pc \in Down /\ faults.tamper < MaxTamper /\ table # Absent
  /\ faults' = [faults EXCEPT !.tamper = @ + 1]
  /\ changed' = changed \cup Authors
  /\ \/ table' = Absent
     \/ \E r \in table :
          \/ table' = table \ {r}
          \/ table' = (table \ {r}) \cup {[r EXCEPT !.row = "tampered"]}
  /\ UNCHANGED <<manifest, journal, pc, process>>

Proceed ==
  \/ Find \/ Trim \/ Match \/ MarkFailed \/ PruneFailed
  \/ Supersede \/ Sweep \/ BeginRun \/ DropTable \/ CreateTable
  \/ VerifySpan \/ Mismatch \/ CopySpan \/ RecordSpan \/ FinishStream
  \/ Finalize \/ PruneDone

Next == Launch \/ Proceed \/ Kill \/ ServerCrash \/ Tamper

\* A live process makes progress, and an interrupted program is started again.
Spec == Init /\ [][Next]_vars /\ WF_vars(Proceed) /\ WF_vars(Launch)
-----------------------------------------------------------------------------
\* Every journal row belongs to a run that exists, every durable row carries a
\* position and the run that wrote it, and the process is at a known statement.
TypeOK ==
  /\ manifest \in Seq([cfg : Configs,
                       status : {"running", "complete", "superseded", "failed"}])
  /\ Len(manifest) <= MaxRuns
  /\ \A r \in journal : r.id \in DOMAIN manifest /\ r.index \in Nat
                          /\ r.digest \in Seq(Rows)
  /\ table = Absent
       \/ table \subseteq TableRow
  /\ pc \in Down \cup {"find", "trim", "match", "fail", "pruneFailed", "supersede",
             "sweep", "begin", "drop", "create", "stream", "record", "finalize",
             "pruneDone"}
  /\ cfg \in Configs /\ build \in Builds
  /\ plan.id \in 0 .. MaxRuns /\ runId \in 0 .. MaxRuns
  /\ span \in 0 .. Len(Spans) /\ rows \in Nat

\* Storage contract: journal rows never accumulate.  Whatever statements a
\* crash has separated, they all belong to the newest run, and at most that
\* one is in flight.
JournalBounded ==
  /\ \A r \in journal : r.id = Len(manifest)
  /\ \A i \in DOMAIN manifest :
       manifest[i].status = "running" => i = Len(manifest)

\* The spans the journal lists for a run, and the rows they put in the table.
JournaledSpans(id) ==
  LET recs == {r \in journal : r.id = id}
  IN  [k \in 1 .. Cardinality(recs) |->
         (CHOOSE r \in recs : r.index = k - 1).digest]
Numbered(spans) ==
  FlattenSeq([k \in DOMAIN spans |->
                [n \in DOMAIN spans[k] |-> [span |-> k - 1, row |-> spans[k][n]]]])
HoldsPrefix(t, spans) ==
  LET f == Numbered(spans) IN
    \A i \in DOMAIN f :
      /\ \E r \in t : r.seq = i /\ r.span = f[i].span /\ r.row = f[i].row
      /\ Cardinality({r \in t : r.seq = i}) = 1

\* A committed span is durable: the rows that the journal of a running run
\* lists are in the table, numbered and in order, however often the run was
\* interrupted and resumed, unless something else has changed the table.
CommittedIsDurable ==
  \A i \in DOMAIN manifest :
    (manifest[i].status = "running" /\ i \notin changed) =>
       HoldsPrefix(table, JournaledSpans(i))

\* "A stale crash record can never be resumed over another run's rows": a run
\* that resumes finds only rows that it has itself written.
ResumesOwnRows ==
  (pc = "stream" /\ plan # NoPlan) => Authors \subseteq {plan.id}

IsStream(t, spans) ==
  t # Absent /\ HoldsPrefix(t, spans) /\ Cardinality(t) = RowCount(spans)

\* Positional identity: when the stream ends, the table is exactly the stream
\* that this build generates from this configuration, in row_seq order, with
\* no row lost or doubled, whatever was resumed, trimmed, rewritten or
\* tampered with on the way.
StreamEndsExact ==
  [][(pc = "stream" /\ pc' = "finalize") => IsStream(table, Spans)]_vars

Completed == manifest # << >> /\ Last(manifest).status = "complete"

\* A program that is killed, and whose server crashes, ends with a completed
\* run if it is the same program that is run again, on a table that nothing
\* else changes.
EventuallyComplete ==
  \A c \in Configs, b \in Builds :
    [](faults.tamper = 0 /\ (pc \in Down \/ (cfg = c /\ build = b))) => <>Completed

\* The database stays well formed, and the rows of every span that the journal of a
\* running run lists stay in the table, through every kill, crash and restart
\* (Postgres::append, recordSpan, prepareResume).
DurableInvariant == TypeOK /\ CommittedIsDurable
=============================================================================
