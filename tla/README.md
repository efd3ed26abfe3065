# PhantomLedger in TLA+

PhantomLedger is a C++23 program that generates a synthetic bank: people,
accounts and merchants, then years of transactions, among them fraud, settled
against a clearing ledger and streamed to PostgreSQL and CSV exports. A run is
deterministic: the same configuration must give the same rows, whatever the
number of threads, the size of the chunks, and the crashes in between; and the
rows must be possible: nobody pays after death, from a device not yet bought, or
with money not yet received. The modules here state what those promises rest on,
check it on small instances with TLC, and prove the part that carries the rest with
TLAPS.

Paths below are relative to `src/` of the repository: `inc/` stands for
`include/phantomledger/`, `src/` for its source directory.

## 1. Inventory

| Component | State | Operations | What makes it correct |
|---|---|---|---|
| Checkpoint and resume (`inc/exporter/sinks/run_ledger.hpp`, `src/exporter/sinks/*.cpp`) | manifest and span-journal tables, the UNLOGGED transactions table, cursor of the span sink | findResumable, prepareResume, supersedeRunning, beginRun, recordSpan, finishRun, markFailed; COPY; verification of the prefix | after any crash the table ends with exactly the stream of the configuration; the journal stays bounded; a record is never resumed over another run's rows |
| Orchestrator (`src/app/orchestrator.cpp`) | connections, chosen plan | pumpTransfers, finalizeExports | calls the run ledger in an order that is safe under a crash between any two statements |
| Clearing ledger (`src/transactions/clearing`) | cash, buffers, protections, fees, line-of-credit integrals, billing heap with tokens | transferAt, accrueLocInterestThrough, setup calls, clone, restore | no transfer without funds; a fee per crossing; billing at the instants, amounts and order of a full scan |
| Replay (`src/transfers/legit/ledger/posting.cpp`) | pending queue, cure index, retry lane, fee budget, settled, declined and dropped rows | extendChunk, takeSettledBefore, drainDeclined | each row one fate, in replay order, the same for every partition of the run |
| Settlement drivers (`src/pipeline/chunk/schedule.cpp`, `src/pipeline/stages/transfers`) | span cursor, stage, coverage | partition, runPhaseA, settlePreSpans, runPhaseB, postFraudChunkedMerged | a span is settled once, after everything it looks at is there |
| Spending session (`src/activity/spending/simulator/session.cpp`) | next day, watermark, pending rows | advance, finish | no row is generated behind the watermark; the stream does not depend on the windows |
| Day simulation and cards (`src/activity/spending/simulator/day_driver.cpp`, `src/transfers/channels/credit_cards`) | the day's frame, payday clock, statements, deferred and pending postings, grace | base replay, emission, settlement, posting, statement close | each statement bills what was posted, once; a fee per missed minimum; no purchase over the limit or after the closure |
| Parallel emission (`inc/activity/spending/simulator/thread_runner.hpp`, `spender_emission_driver.cpp`) | job pointer, generation, remaining, per-thread scratch | run, stop, workerLoop, mergeThreadTxns | the merged day is the sequential day; no job is missed, run twice or run after its end |
| Market (`src/activity/spending/market`, `dynamics/monthly`, `routing`) | favourites, billers, contacts, merchant laws, local pools | bootstrap, monthly evolution, choice of a payee | people pay open shops near where they live; contact rows stay sets of others |
| Legitimate builder (`src/transfers/legit`, `inc/activity/income`, `inc/activity/recurring`) | screened and replay views, screening books, run files, cursors | the passes: salary, rent, benefits, revenue, split deposits, ATM, crypto, subscriptions, own transfers, spending, family | income comes on its dates, the routines leave what they must, the dead are still, and the windowed engine drains what the monolithic one sorts |
| Fraud (`src/transfers/fraud`) | budgets, ring phases, chain ids, case plans | camouflage, typologies, compromise and scam cases, refunds | budgets hold over phases; money is passed on after it came in; cases stay inside memberships |
| Access infrastructure (`inc/entities/infra`, `src/synth/infra`, `inc/transactions/factory.hpp`) | devices, addresses and their tenures, attackers, sticky anchors | build, route, stamp | a row's session existed at its instant, and stays on its line |
| Synthesis (`inc/synth`, `src/synth`) | lives, accounts, owners, homes, merchants, payees | built once, in stages | lives in order, owners stable, co-residents move together, payees registered before they are paid |
| Relationships (`src/relationships`) | households, couples, parents, supporters, contacts | built once | relations mutual, nobody related to himself |
| Exporters (`src/exporter`, `inc/exporter`) | running indices, groups, windows, tables | append per batch, finish | what is streamed equals what is written at once; no edge dangles; reports and labels say what the corpus says |
| Account locks (`inc/primitives/concurrent/account_lock_array.hpp`) | one atomic flag per account | lockPair, unlockPair | mutual exclusion, no deadlock, no lost wakeup |
| Asynchronous sink (`inc/pipeline/chunk/async_sink.hpp`) | bounded queue, flags, captured exception | beginSpan, endSpan, finish, destructor, workerLoop | order, backpressure, no swallowed error, termination |
| Primitives, command line, reporting | - | calendar; other pure functions, I/O | the calendar is checked where the benefits use it |

How they interact: the orchestrator builds the world (entities, relationships,
infrastructure), then the legitimate rows that are known beforehand, then runs the
two phases of the windowed driver. Phase A lets the session simulate window after
window (the worker pool inside a day, cards at its end, the market at month
boundaries), stages the finalized rows with those of the other sources and folds
each covered span through a replay accumulator, which posts to a clearing ledger;
fraud is injected from what that fold leaves. Phase B folds the legitimate
candidates and the fraud rows through a second accumulator and passes each span to
the sinks: the PostgreSQL sink journals it, the exporters accumulate it.

Where it is hard: crashes between two statements and a table that does not survive
a server crash; state carried across span boundaries (retries, fees dated after
their debit, cure windows, running indices of the tables); lazily maintained state
that must equal an eager scan (billing queue, run files); rows generated out of
order behind a watermark; endpoints, memberships and shops that end while something
is using them; and three pieces of hand-written thread coordination.
`PROJECT.json` lists each hazard at its line.

## 2. Modules

| Module | Models | State and actions |
|---|---|---|
| `Checkpoint` | run ledger, sinks, the orchestrator's call order | one action per SQL statement; `pc` is the statement to come; `Kill`, `ServerCrash`, `Tamper`, and `Launch` with another configuration or build |
| `Clearing` | ledger and accrual as operators on a book | a record of per-account functions; `TransferAt`, `Accrue`, `SetProtection`, ..., `Restore` return the next book |
| `LedgerBook` | one ledger in use | the book, the clock and the events sent; refines `LocScan` |
| `LocScan` | what the accrual promises: the scan of every slot | the abstract specification; the refinement is checked and proved |
| `Replay` | the replay accumulator as operators | queue, cure index, retries, fee budget; EXTENDS `Clearing` |
| `SettlementFold` | the span-by-span fold | one action, `SettleSpan`; EXTENDS `Replay` |
| `PhaseA` | session and phase A of the driver | `Advance`, `Finish` with the staging and settlement each of them triggers |
| `SpendingDay` | the card lifecycle; one spender through the day loop | operators on a card (statement, grace, payment, late fee, dispute, compaction, service end), then the steps of a day in the order of the driver |
| `WorkerPool` | a parallel day | caller and workers, every critical section one action, sleep and notify apart |
| `AccountLocks` | the lock array | test_and_set, wait, clear and notify as separate actions |
| `AsyncSink` | the asynchronous sink | producer and worker, every critical section one action |
| `MuleTemporal` | the mule_temporal export | the plan of tenures and labels; one turn of `advance()` or one payment per action |
| `World` | accounts and owners as the stages register them; what the exporters share | operators on a registry and on seen windows, chains, shells |
| `AmlExport`, `TxnEdges`, `StandardExport`, `CardFraud` | aml with its reports, aml_txn_edges, standard and mule_ml, card_fraud | append and finish of each as operators, a table is a set of rows |
| `Exports` | a run with one use case | the stages that build the world, the spans with their rows and declines, `finish`; compared with one batch |
| `AccessInfra` | the router and the factory; who holds which device and address; attackers | operators on pools and anchors |
| `FraudRings`, `FraudCases` | playbooks and typologies; compromise and scam cases | operators that return the rows of a phase or case |
| `FraudInjector` | the injector | one action per legitimate row, camouflage, ring phase and case |
| `Calendar`, `People`, `MerchantCatalog` | dates; lives, homes and relations; merchants and remote payees | operators on the draws of a world |
| `Income`, `Routines`, `Market` | what earns; what is screened and what kin give; where people shop | operators that return rows or the next market |
| `LegitBuilder` | the passes and what drains them | one action per pass, month and drained span |
| `Draws` | a random draw as an input; a fold without recursion | helpers |
| `MC*` | instances for TLC | streams, schedules, worlds and draws |
| `*_proofs` | the theorems about `AccountLocks` and `AsyncSink` (`ThreadProtocols_proofs`), `WorkerPool`, `Checkpoint`, `PhaseA`, `LedgerBook`, `SettlementFold`, `SpendingDay` | section 5 |
| `InductionLemmas` | induction stated about sets, loops, concatenation, ranks, sums | lemmas the proofs share |

Abstractions that matter: digests are the rows they digest; amounts are integers;
instants are small numbers, or minutes where the calendar counts; a heap is the set
of its entries (a second equal entry of the billing heap finds its token cleared);
condition variables are sets of sleepers, and a wakeup only makes the thread test
its condition again; a weighted law is its support; a table is the set of the cells
that identify its rows. A random draw is an input. Where a step has few draws
(retries, payments, disputes) every outcome is explored. Where it has hundreds (a
typology, a town) a policy says how the draws fall: at the low or the high end of
their ranges, at either end in turn, the coins all one way or alternating, always
within the bounds of the code. Definitions marked `(mutant: ...)` are faulty
variants that the properties are tested against; no specification uses them.

`PROJECT.json` gives the source lines of each definition. A helper whose lines all lie
inside those of the definition that uses it is mapped with that definition and has no
entry of its own; state variables and actions always have one.

## 3. Runs

A property is a conjunction of named parts where several facts belong together;
each part is defined and explained on its own above the conjunction.

| Run | Configuration | Shows |
|---|---|---|
| `account_locks` | 3 threads, 2 accounts, 2 transfers each, every pair of sides | exclusion (`Exclusive`), no circular wait (`NoCircularWait`), completion and with it no lost wakeup (`AllComplete`) |
| `checkpoint` | 2 configurations, 2 builds, 4 runs, 2 kills, 1 server crash, 1 change of the table | a stream that ends is the stream of its build (`StreamEndsExact`); what the journal lists is durable (`DurableInvariant`); a plan is only followed over the run's own rows (`ResumesOwnRows`); the journal belongs to the newest run (`JournalBounded`); running it again completes it (`EventuallyComplete`) |
| `ledger_book` | lines of credit and every other protection, a card, an employer, an ATM; a billing period, setup calls, postings, a restore | the token queue agrees with the slots (`BookInvariant`) and implements the scan (`ImplementsScan`), under enabling, disabling, cloning and restoring; one fee per crossing (`FeeOncePerCrossing`); no transfer below the buffer (`BufferFloor`) |
| `settlement` | every stream of up to 3 rows, up to 3 bills and salaries beside a refund of the fraud stream, one stream of 7 rows that uses up a fee budget of 2 a day, every outcome of the coins drawn (4 at most), 3 schedules | one fate, order and bounded attempts (`FatesExact`), the rows explain the book (`RowsExplainBook`), independence of the span size (`ChunkSizeInvariant`) where the cures in a lookahead are in order (finding 2) and the clamp cuts none of it off (finding 6) |
| `phase_a` | 5 days, 3 generation and 3 settlement schedules, rows dated back up to the lag | the calls to the fold do not depend on the generation windows and nothing is staged twice (`SettlesExactly`); nothing is late (`NeverLate`) or left (`AllSettled`) |
| `spending_day` | one card over 15 days in months of a few days, 2 paydays, 3 ways of paying, a death or none | statements are exact, nothing deferred is stranded or left undecided (`BilledExactly`); a fee for every missed minimum and no other, grace is earned (`FeesEarned`); the limit, the watermark and the payday clock hold, nothing posts after closure (`PostedInTime`) |
| `worker_pool` | 4 threads, 6 spenders, 2 days | the merged rows are the sequential ones (`ThreadInvariant`); the job is current (`JobIsCurrent`) and the count of workers exact (`RemainingExact`); shutdown (`ShutsDown`) |
| `async_sink` | 5 spans, queue of 2, a throw at any call, abandonment at any point | order, backpressure and an end only for a whole run (`PrefixWritten`), nothing after an error (`FailStop`), termination (`AlwaysEnds`) |
| `mule_temporal` | overlapping, touching and cut tenures, 2 payments in every order | one sequence follows the clock, vertices and bindings are there when used (`CausalOrder`); tenures are written exactly, limits hold, labels are not ahead of the clock (`RecordsExact`) |
| `exports` | 2 worlds of 4 people, 5 use cases, 2 spans of up to 2 rows and 2 declines | streaming equals one batch (`StreamedAsWhole`); every edge ends in a row of the export, for `aml` in an account but for payees that bank here (`NoDangling`, finding 16); reports, alerts and cases are those of the corpus (`ReportsExact`), velocity alerts while no two keys collide (finding 18), and so are aggregates, closures, card numbers and sessions (`EntitiesExact`) |
| `fraud` | 2 worlds of 10 people, 2 rings, 17 playbooks, 4 rails | sessions existed and were held, but for the endpoint a ring shares (finding 15), households are disjoint (`SessionsPossible`); chain ids are fresh over phases (`ChainFresh`); budgets hold, money is passed on after it came in, rings and cases stay inside lives and memberships (`WithinBounds`) |
| `legit` | 3 towns of 6 people over 90 days, 24 policies, both engines | the two engines agree on the rows before the window end (`EnginesAgree`, finding 12); lives, kin, homes, merchants and the market keep their promises (`WorldConsistent`); income is on time, the screens hold, the dead are still (`RowsJustified`) |

Bounds. Two accounts are the least over which locks can deadlock and transfers
move cash; three threads are the least with which a wakeup can go to the wrong
sleeper. Four manifest rows let a run be interrupted, superseded and resumed
under another configuration. A billing period fits in three instants: an account is
seen, enabled again, and billed, or restored to before its billing and billed again. Spans of one to three instants with a
lookahead of two are the smallest in which a retry crosses a span, misses a cure,
or a fee belongs to the next span; one schedule ends in a span shorter than the
lookahead and two curing streams meet in one window, so both conditions of
`ChunkSizeInvariant` are false in some of the checked runs (findings 2 and 6). One bit
of account number makes keys of `exports` collide (`KeysApart`, finding 18). The queue of two with five spans fills and
drains. Fifteen days of short months hold three statements: one whose payment is
rejected, one that carries its fee, and one at the window's end. Two spans are the
least over which an index can restart; the batches hold rows of every kind the use
case tells apart. The ninety days of `legit` include a New Year, a Christmas on a
payment day, a short month and three month boundaries. Where a counter has no bound in
the code (manifest rows, postings, transfers, days) the bound is a constant named
`Max...`, `Horizon` or `Num...`.

Deadlock checking is off where the system may stop: a finished run, bound reached.

Fairness. `AccountLocks`, `WorkerPool` and `AsyncSink`: every thread that can take
a step is scheduled (weak fairness per thread; a sleeping thread cannot step until
it is notified). The inner sink's calls return. `Checkpoint`: a live process goes
on, and the operator starts the program again; kills and crashes are bounded and
not fair. `PhaseA`: the loop over the windows runs to its end.

## 4. What TLC alone shows

Liveness (`AllComplete`, `EventuallyComplete`, `ShutsDown`, `AlwaysEnds`,
`AllSettled`) is model-checked and not proved: the prover has no rule for fairness or
ENABLED. So are, for now, one property of the fold (`ChunkSizeInvariant`), the
exporters (`CausalOrder` and `RecordsExact` of `mule_temporal`, `StreamedAsWhole`,
`NoDangling`, `ReportsExact`, `EntitiesExact`), the fraud (`SessionsPossible`,
`ChainFresh`, `WithinBounds`) and the legitimate builder (`EnginesAgree`,
`WorldConsistent`, `RowsJustified`). Several of these rest on the folds of the community
modules over long sequences, which take an operator as a parameter: no lemma about
them can be stated for the provers. A definition that is proved about is
written with a recursive function instead (`OpeningBook`, `ChargesOf`,
`InterestRows`, `DrainPending`, `OnLiquidityEvents`, `Moves`, `CollectPurchases`, `AdvanceOnce`,
`Settle`), and a sort or a selection by the places its order gives the rows (`Arranged`, `Ordered`).

## 5. Proofs

All of these hold for every value of the constants that satisfies the named
assumptions; TLC evaluates the assumptions on the instances above. Each proof
finds an inductive invariant, has one step or lemma per action, and
combines them into `Spec => []Inv`, from which the listed theorems follow.

`InductionLemmas`. The library's induction theorems take a predicate as a parameter,
which the provers cannot instantiate. Here induction is stated about a *set* of numbers:
a set that has the first number and with each the next has all of them
(`SetInduction`, `BoundedInduction`), from `LeastNat`. `LoopExists` follows: a loop
over 1..n, given by the graph of its step, has a run, and its run is what a recursive
function computes. On it rest `FlattenIsRun` and `FlattenAppend` (what concatenating
a sequence of sequences gives, and what one more adds) and the lemmas on ranks
(`Ranked`, `RankUnique`: a finite set of numbers is counted by how many lie below each).
The sum of a sequence is likewise the last value of a run of partial sums: there is one
and only one (`SumRunExists`, `SumUnique`), the sum of two sequences after one another is that
of their sums (`SumConcat`), and reordering a sequence leaves its sum as it is (`SumPermuted`).

`ThreadProtocols_proofs`, on the locks: `TypeCorrect`, `MutualExclusion`, `DeadlockFree`.
Assumed: accounts are numbered from zero, "free" is no thread. Exclusion is not
inductive alone, since two threads may each believe they hold a flag. `OwnerInv`
says that the flag of an account names the one thread that has it in `held`, and
`ThreadInv` that what a thread holds is below all that it still wants. The
latter is `lockPair`'s sorting by index, and gives `DeadlockFree`: among the accounts a
circle of waiting threads wants, take the highest (`HighestAccount`); the thread
that holds it wants a higher one.

`WorkerPool_proofs`: `RemainingIsExact`, `JobsAreCurrent`, `MergeIsSequential`. Assumed:
at least two threads (`PoolAssumption`; with one, run() calls the job inline). A counter
cannot be shown right from its value alone:
`PoolInv` ties it to the set `Busy` of the workers that have not seen the present generation
or have not reported. Each report removes exactly one worker from `Busy`, so
`remaining = 0` means that nobody is busy, which `WorkerInv` needs to show that all
workers are back at the wait when the next generation is published.
`MergeIsSequential` adds `RowsInv`: the scratch of a thread holds the rows of its range
up to its cursor, and is full once the thread has reported. The ranges follow on one
another from the first spender to the last, so concatenating the scratches in the order
of the threads gives the rows of one thread going through all spenders.

`ThreadProtocols_proofs`, on the sink: `OnlyPrefixes`, `NothingAfterFailure`. What the sink inside has
written, the span in the worker's hands and the queue are, put together, the
spans the producer has handed over, as long as nothing has failed; after a failure
nothing more is handed to the sink inside, and the producer never ends as if the run
were whole.

`Checkpoint_proofs`: `JournalStaysBounded`, `ResumeIsOwn`, `DurablePrefix`,
`StreamIsExact`. The invariant is indexed by
the statement to come, because a kill may fall between any two: `PlaceInv` says what
the statements already executed guarantee (after the supersede no run is running; after the
sweep the journal is empty), `OwnInv` whose rows the table may hold. Rows of an older
run are there only while the new run's journal is empty, so `findResumable`, which
by the lemma `FindsNewest` only returns the newest run with a journal, cannot plan over
them. The two later theorems add `DurableInv`: the journal is a contiguous prefix of its
run's spans whose rows are committed before it is, the table holds that prefix and at
most the span being copied, and a cursor that passed verification stands at its end.
They assume that a missing table is not a set of rows (`AbsentAssumption`) and
that streams are sequences of spans (`StreamAssumption`). A change of the table by
somebody else is excused only until the next check of the digest.

`PhaseA_proofs`: `NoLateRows`, `SettlesAsFullRange`. Assumed for the first: no row is
dated back beyond the lag
(`DatesAssumption`, what `kCardFinalizationLagDays` is documented to cover), and
generation windows are ascending (`GenerationsAssumption`). `Watermark` says that the
watermark trails the
next window by the lag or has not left the start; a row of the next window is
then never behind it. `DayRows` also takes from the code that a dispute is dated
from a purchase of the run, so that no row lies before its start.
`SettlesAsFullRange` says that however the run is cut into generation windows, the
calls to the fold are those of a run whose rows were all there from the start. It
also assumes settlement schedules that ascend over the run (`SettlementsAssumption`)
and finitely many other rows (`SourcesAssumption`). The argument (`SettleInv`): what is staged is, in
order, the rows before the watermark whose span is not settled; a
sorted sequence places a row by the number of rows before it, so a row that comes
later and lies at or after the watermark moves no position below it; a span is
settled once the watermark has passed its lookahead, so what later windows
generate cannot change a call that has been made.

`LedgerBook_proofs`: `QueueOfBillings`, `FundedOnly`, `OneFeePerCrossing`, `LazyIsScan`.
Assumed (`LedgerBookAssumption`): the types of the constants, and that no posting comes
in on a channel of the ledger's own. The invariant bounds every instant the tracker
keeps by the clock, and says that an enabled slot has the entry of its token in
the queue, at its next billing, and a disabled one is reset; entries with another token
may be there (`SlotOK`). With it
`LazyIsScan`, the refinement of `LocScan`, goes step by step: popping due entries until none is
left charges the lines that a scan of every slot would charge, once per period and
in the same order, because entries whose token was cleared charge nothing and
an untouched line has no interest to bill. `FundedOnly` and `OneFeePerCrossing` are
case analyses over the channels of `transferAt`, from the type of the book.

`SettlementFold_proofs`: `EveryFateExact`, `BookIsExplained`. Assumed: rows of a run have numbers of
their own, above zero (`StreamsAssumption`; the bank's own rows have 0), seeds are
numbers (`SeedsAssumption`), schedules ascend (`SchedulesAssumption`), delays and paddings are at least
one second (`ReplayAssumption`), and the channels of the bank's own rows are channels
(`ChannelsAssumption`). `IndInv` says, between two spans, that what has left
and what the accumulator still holds are, row by row, the rows of the streams before the
span that comes next (`Settles`, `Fated`). Two things make it inductive. `Sound` ties each item on the queue
to the attempts declined for its row, in this span and in earlier ones, so that the
bound on attempts survives the hand-over from span to span, where the declined
attempts leave the accumulator. And the channels are known of the rows handed over so far
and of no others, from which follows that the rows of the next span are new to the queue.
Inside a span each turn of the drain keeps `Sound` (`TurnKeeps`), and it ends because each turn
uses up one of the attempts left (`WorkLess`): three turns for each queued row are
enough for the queue to hold nothing due (`DrainIs`). A retry lies after the attempt it
repeats (`RetryIs`), and a charge not before its cause, so nothing enters a window
that has been settled. The order of the output is that of `SortedIs`, a sort given by the number of rows
before each, and of the cut at the end of the span (`SplitIs`).

`BookIsExplained` keeps accounts of that fold. What a sequence of rows moves on an account
is a sum (`MovesIs`), so it is the same after the output has been sorted (`MovesSorted`)
and adds up over the cut at the end of the span (`MovesSplit`). A turn of the drain
`Explains` itself if each balance changes by what the turn's new rows move (`TurnExplains`):
the interest and the fees that fall due are debited and become rows with the same account and amount
(`InterestMoves`, `FeeMoves`), and the row itself moves cash between its ends if
it is accepted, and nothing if it is declined. A fee beyond the daily budget is debited
without a row; then the budget of that account is used up, and it stays so, because the
tracker forgets no tap (`BudgetShrinks`). That is why the theorem is an equality on every account within
its budget and an inequality on the others. `BookInv` joins `IndInv`, which gives the
types of the queue and the channels, and `Accounted`: the equation over the rows that have left
*and* those the accumulator still holds, without which it would not be inductive.

`SpendingDay_proofs`: `PostedOnTime`, `EveryCentBilled`, `FeesAreEarned`. Assumed, beyond the types of the
constants:

- `CalendarAssumption`: the months start at day 0 and go past the window, the first close
  comes within the finalization lag, and no two closes are further apart than it. The
  code's comment (`spending/simulator/session.hpp:72`) gives this as the reason for 32
  days.
- `TermsAssumption`: grace is at least two days and longer than a payment can be early;
  grace, the weekend that moves the due date, the latest payment and the morning of its
  fee fit into the servicing tail (25 + 2 + 20 days and 25 + 3 days, of 50:
  `card_cycle_driver.hpp:26`); a dispute comes a day or more after its purchase, and
  sooner than the 120 days between a death and the closure (refunds 1 to 14 days,
  chargebacks up to 45: `dispute/behavior.hpp`). These are the defaults; a configuration
  may set others, and the theorems then say nothing.
- `SpenderAssumption`: salaries and purchases are not negative, and the first payday lies
  within the first period.

The first two theorems come from one invariant, `IndInv`, which says of each phase of a day what
holds there (`AtDawn` before the purchases, `AtDusk` before the closes, `AtEnd`). Its
parts, and why each is needed:

- the ladder of closes ascends and its steps are at most the lag wide (`ClosesAre`); what
  is deferred, or unbilled, is dated in the open cycle or later, and a close that a day's
  end must run lies on that very day, unless the card has had no purchase yet and bills
  nothing (`Fresh`). From these, and a dispute being dated after a purchase of the open
  cycle, a row that a close reveals is at most a lag behind it, so never behind the
  watermark.
- a waiting posting that carries a late fee is a payment dated before that fee (`Booked`).
  So the fee that its rejection books is due later than the payment, the second round of
  `advanceLedgerTo` takes every fee that the first one books, and nothing is left behind
  the bound (`AdvanceIs`).
- the account of the card: what is owed, the session's balance, what is unbilled and what
  is deferred add up to zero (`ExactNet`). It holds at every step but the posting of a
  day's purchases, which reach the ledger before the driver ingests them; `Bought` carries
  them over. Billing and compacting only move rows between the parts (`NetKept`,
  `NetConcat`, `NetArranged`), which is where a cursor that is not rebased breaks it.
- the limit is part of what every posting keeps (`Sheet`), and the purchases of a day are
  each checked again when they are settled, whatever the morning's check said
  (`SettleIs`).
- the clock: on day `d` the days since the last payday are `(d - firstPay) % PayPeriod`,
  also before the first payday of the window, as if paydays had come before it
  (`ClockStarts`, `ClockTicks`).

`FeesAreEarned` looks back over every statement of a run, so it needs a second invariant,
`FeesInv`, on top of `IndInv`. It says of each statement with something to pay that it is in
one of three places (`Owing`), which exclude each other:

- `Awaited`: a payment of the minimum, in time, waits and carries the fee its rejection
  costs; nothing else of the statement waits or was decided.
- `Received`: such a payment was taken, and no fee was booked.
- `Missed`: none was taken and none waits, and exactly one fee waits or was decided, unless
  it would fall past the window.

A close puts its statement into the first or the third (`BillTally`, `BookingOwing`). A
decision moves one from `Awaited` to `Received` or to `Missed` (`DecidedOwing`), and leaves
the statements of other closes alone: rows carry their close, and no row of a later close
waits yet (`CyclesBy`). Sorting the queue, splitting it at the bound and draining it again
move nothing between the places (`RearrangedTally`, `AdvanceTally`), nor do disputes and
interest (`StatementQuiet`). When the due time is over, what waits is later than it
(`AtDawn`), so `Awaited` is impossible and the fees are none or one. The grace is kept by the
same moves (`Earned`). One hypothesis beyond the assumptions, `FeesApply`: the least
payment and the late fee are not zero. `BillingTerms::validate` (`statement.hpp:26`) lets
either be zero; then a statement is met without a payment, or missed without a fee, and TLC
finds `FeesEarned` violated on the same instance with `MinPayment` and `MinPct`, or
`LateFee`, at 0.

Out of the prover's reach: liveness and ENABLED; RECURSIVE operators, which take the SMT
backend away; and the folds of the community modules, whose operator parameter no
lemma can quantify over.

## 6. Findings

Met while modelling; the modules follow the code in each case.

Settlement and checkpoint

1. After a digest mismatch the message (`run_ledger.hpp:351`) says to rerun to rewrite
   in full, but the manifest row stays `running`, so each rerun of the same build
   finds the same plan and throws again.
2. The order of the lookahead does matter, against the comment at
   `ledger_replay.cpp:214`: the cure index is searched by `upper_bound`
   (`posting.cpp:397`), and phase B fills it with the candidates followed by the fraud
   rows, so a salary hides an earlier refund. With two bills, a salary and a refund over
   `<<1, 3, 6>>` the retry of the second bill is dated after the salary if the fold is
   cut at 3, and after the refund if it is not cut. `CuresInOrder` keeps
   `ChunkSizeInvariant` to the streams without this; TLC reports that very violation when the
   condition is dropped.
3. A fee over the daily cap is debited from the book before the cap is looked at
   (`posting.cpp:477`), and leaves no row; `docs/fraud_model_audit.md:1706` says that
   every fee posting is kept. `RowsExplainBook` says what
   is left of it: an account over its cap may hold less than its rows explain, one within
   it holds exactly that.
4. A committed span without rows makes `prepareResume` reject an unchanged table: the
   GROUP BY profile omits it, the expected profile lists it (`Profile`, `Expected`).
   The run is then rewritten, so the data stay right.
5. A server crash between the end of the stream and `finalizeExports` empties the
   table, and the run is still marked complete (`ServerCrash` at `"finalize"`).
6. `partition` clamps the lookahead of every span but the last to the run end. With a
   last span shorter than the cure window the fold depends on the chunk size: over
   `<<1, 5, 6>>` a bill of the first span does not see a cure at 6, which a run of one
   span does. `LookaheadUncut` keeps `ChunkSizeInvariant` to the runs without this; TLC
   reports that very violation when the condition is dropped.

Cards and spending

7. A statement below the minimum payment that is paid in full and in time is charged a
   late fee (`credit_cards/session.cpp:82`); `docs/simulation.md:188` has it only if
   unpaid.
8. A late payment that is rejected after the next close clears the grace that the next
   statement has earned (`session.cpp:306`).
9. Before the first month boundary the merchant laws and pools cover the whole catalogue
   (`bootstrap.cpp`), so a merchant not yet open may be paid in the first partial month;
   a favourite that closes within a month is paid until the next boundary.

Legitimate rows

10. Gifts from parents and grandparents can never be made: only students are given
    parents (`relationships/family/links.cpp`), and the gift routines ask for an adult
    child's; `docs/simulation.md:416` and `:418` describe them.
11. A posting lag is added twice to salaries (`payroll.hpp`, `salary.hpp`), so a paycheck
    may post after a death or past the end of a job; revenue and rent are dated within
    their month without looking at a death in it.
12. Split deposits and self-transfers whose lag passes the window end are generated and
    never drained. `EnginesAgree` compares the rows before the window end.
13. Constants differ from the docs: the allowance is weekly with 70% and not 60%, and
    its Pareto law differs (`docs/simulation.md:413`).

Fraud and infrastructure

14. Invoice rings reach up to three weeks past the guard of `ringWindow`, so a row may
    follow a member's death; `docs/fraud_model_audit.md:502` says that rings never recruit the
    dead. `HorizonKept` leaves the invoices out.
15. The device and the address a ring shares are stamped on its rows whether or not
    their tenure covers them, and whether or not the member holds them
    (`factory.hpp:43`), though the row "must resolve as of the row's own timestamp"
    (`factory.hpp:65`). `SessionHeld` excepts a leg that is the shared endpoint of the
    row's own ring (`SharedByRing`) and nothing else: the other leg of such a row, and both
    of a ring row without it, are held by the owner of the source at its time. TLC reports
    a violation when the exception is dropped for either leg. Whether a venue is open is
    asked at the start of a case only; forwards may exceed what came in when the price
    level steps between the two.

Exporters

16. Merchants that bank here are registered as external, and `aml` edges
    (`aml/edges.cpp:98`) take them for internal accounts: their send and receive edges
    name a `Counterparty` vertex that has no `Account` vertex; so would those of a landlord
    that banks here. `NoDangling` accepts a `Counterparty` there for these payees only
    (`BanksHere`), and asks for the `Account` of any other.
17. In `mule_ml` a range that is not counted as a session leaves the count at zero, and
    the next touch overwrites first and last seen (`infra_edges.hpp:58`).
18. The key of a velocity burst (`derived.cpp:738`) shifts account and day into each
    other; accounts numbered high enough share it. The instance has room for one bit of a
    number below the day, so that keys do collide; `VelocityExact` holds for a corpus in which
    none do (`KeysApart`), and TLC reports a violation when that is dropped.
19. A table's destructor only prints a failed COPY (`common/table.hpp:79`).

## 7. Not modelled, and the plan

Pure I/O (command line, progress, reports, CSV quoting, the libpq wrapper), constant
tables, formatting and hashing stay out, and so do distributions: what TLC can say of a
random walk is which values it can take. Of the parts with a control of their own, these
are left:

1. Insurance, obligations and product instalments: rows dated from a product's terms.
   They enter the passes of `LegitBuilder` as one more source of precomputed rows.
2. `CogenGraph`, the union-find of `pipeline/batch`; the windowed run does not use it.
3. The table mirror and the econ tables.
4. Momentum, dormancy and fatigue of a spender: they scale a rate, and no control depends
   on them.
5. The payer of a card credit. The code posts a credit through `transferAt`, which may
   reject it; in `SpendingDay` the merchant always has the money (`Accepts`).

Theorems that could follow: that `mule_temporal` writes in causal order.
