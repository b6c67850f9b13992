# causalq in TLA+

A verification project for **causalq**, a task queue in Go over SQLite with
dynamic priorities. The modules are translated from the source of this
repository; line numbers refer to the commit they stand beside. `PROJECT.json`
maps every definition to the lines it models.

## 1. Inventory

| Component | Source | State it keeps | Operations |
|---|---|---|---|
| Queue engine | `queue/queue.go`, `queue/schema.go`, `queue/job.go` | tables `jobs` and `job_metrics` in SQLite; `Engine.rules` in memory; one mutex | `Enqueue`, `RecomputePriorities`, `Reserve`, `Complete`, `Fail`, `DLQReplay`, `SetRules`, `GetRules`, `ListJobs` |
| Prioritization rules | `queue/priority.go` | none | `ComputePriorityScore`, `DefaultRules` |
| Worker pool | `worker/worker.go` | per worker: its place in the loop, `job`, `activeJob`; shared: `telemetryChan` (100 slots), `stopChan` | `runWorker`, `reportTelemetry`, `Start`, `Stop` |
| Broker process | `broker/broker.go` | the process itself, `producerThrottled` | `main`, the HTTP handlers, `evaluateBackpressure` |
| Metrics and listing | `broker/broker.go:212-268`, `queue/queue.go:349-400` | none (computed from `jobs`) | `handleMetrics`, `handleListJobs` |
| Simulator | `src/App.tsx`, `src/types.ts`, `src/main.tsx` | React state of a second, simulated queue: `jobs`, `workers`, `backpressureLock`, `rules`, `metrics`, banner and log, switches, and the timers of executions under way | `enqueueJob`, the tick, the end of an execution, replay, clear, the stress lock, rules and sliders, play and pause, the auto-producer; the panels that show the queue |
| Dashboard page | `dashboard/index.html` | none, polls the API | |
| Configuration | `config.yaml` | never read by the program | |

**How they interact.** An HTTP handler runs on a goroutine of its own and calls
one engine operation. Each worker goroutine wakes every 500 ms, calls `Reserve`,
sends a busy report, runs the job's handler, calls `Complete` or `Fail`, and
sends an idle report; a reporter goroutine sends a heartbeat every two seconds
on the same channel. All engine operations but `ListJobs` hold `Engine.mu` from
their first statement to their last, except that `Reserve` releases it between
recomputing the scores and selecting a row. SQLite outlives the process; rules,
the channel and what a worker holds do not.

**What is hard here**, and the properties it calls for:

- *Engine*: two critical sections in `Reserve`; `Complete` and `Fail` update a
  row whatever its state, so they are right only if their caller holds it;
  retries are counted, compared, stored and reset in four places; times lose
  their part of a second when they are stored; a unique column meets a duplicate
  check that looks at some rows only. A row must follow its lifecycle, a payload be
  queued once, retries be counted and spaced right, averages agree with the table,
  and what is ranked be up to date.
- *Worker pool*: blocking sends on a bounded channel inside the main loop, and
  discarded errors. No job may be executed twice at a time or be lost without a
  failure, and each pending job must be reserved in the end.
- *Process*: a crash or a shutdown with jobs in hand, and a restart on the same
  database with the default rules.
- *Handlers*: an id drawn before the engine's lock is taken, refusals and their
  reasons, answers that are lost. What a client was told must stay true.
- *Metrics*: counters computed from the table, over a bounded number of rows and
  without the engine's mutex, by scrapes that may overlap.
- *Simulator*: callbacks over state that has changed since. No job may be
  executed twice at a time, too often or too early, queued twice, or lost, and
  like jobs must be started in order of age; what the panels count must cover
  what the list holds, although React may call an update's function twice.

## 2. Modules

| Module | Models | Correspondence |
|---|---|---|
| `Priority` | `queue/priority.go` | `ComputePriorityScore` is a fold of `ApplyRule` over the rule list. Scores are integers, in hundredths of a point, and ages in tenths of a second |
| `Engine` | `queue/queue.go` over `queue/schema.go` | one variable per column of `jobs`, a function on the ids (`state[i] = "absent"`: no row); one action per critical section |
| `WorkerPool` | `worker/worker.go`, the process of `broker/broker.go` | EXTENDS `Engine` and composes its actions with a program counter per worker, the channel, the process and the requests |
| `Broker` | the handlers of `broker/broker.go` | EXTENDS `WorkerPool`: a request is received, meets the engine and is answered in three steps, a scrape of `/metrics` is read and answered in two |
| `TaskQueue` | README.md, "Bulletproof Job Lifecycle" | the abstract specification: jobs that wait, are taken, finished, given up, lost or revived |
| `PoolRefinement` | - | INSTANCE of `TaskQueue` over the variables of `WorkerPool`: the refinement mapping |
| `Simulator` | `src/App.tsx` | the newest values (`state`, `retries`, `busy`, `backpressureLock`), the last render (`seen`), and the executions under way; one action per callback |
| `PageScore` | `src/App.tsx:362-384`, `555-587` | the page's own loop over the rules, beside `Priority`, and its backoff |
| `Ranking` | `src/App.tsx`: which job a tick starts | EXTENDS `Simulator` with a clock, `runAt`, the rules and the sliders: what `Simulator` leaves open is decided by `PageScoreOf` |
| `Console` | `src/App.tsx`: what the page counts and shows | EXTENDS `Simulator` with the metrics, the banner, the log, the rack and the switches |
| `MCWorkerPool`, `MCBroker`, `MCSimulator`, `MCRanking`, `MCConsole` | - | values of the constants for TLC |
| `FoldProofs` | - | what the folds compute for data of any size: sums over sets, and the two loops over a rule list |
| `WorkerPoolProofs` | - | type lemmas about each engine operation, the inductive invariant and the theorems that rest on it |
| `RetryProofs` | - | the retry budget, and the time between a failure and the next try |
| `RefinementProofs` | - | `WorkerPool` implements `TaskQueue` |
| `BrokerProofs` | - | `Broker` implements `WorkerPool`, and its answers are kept |
| `SimulatorProofs` | - | the simulator's safety |
| `RankingProofs` | - | `Ranking` implements `Simulator`; when and in which order it starts jobs |
| `ConsoleProofs` | - | `Console` implements `Simulator`; its rack, its counters, its duplicates |

`Engine` and `WorkerPool` are one composition (shared variables, interleaved
steps), `Broker` a second one on top of it. `Simulator` stands alone: the page
never talks to the Go program. `Ranking` and `Console` each refine it in one
direction: every action of theirs is one of `Simulator` with more said about it.

A **column** on which nothing decides (`last_error`, `reserved_at`,
`completed_at`) is left out.

The **clock** has a second, `now`, and a tenth of it, `part`; `Tick` moves it to a
later tenth of `Parts` or to the next second. A **timestamp** is stored as RFC3339,
which drops the part, and parsed or compared without it: `created_at` and `run_at`
are seconds, the backoff is added to the second of the failure (`Fail`), a query
compares seconds (`Eligible`), and an age is the exact clock less a truncated
`created_at` (`CurrentScore`), but zero for the score that `Enqueue` stores, which
it computes before it truncates (`InitialScore`). So a retry may start early, by
less than a second, and jobs of one second have one age; the histories `failedAt`
and `Clock` keep what the table does not. Comparing the text is comparing the
seconds as long as the zone's offset is the same: it is in the image that the
`Dockerfile` builds (alpine without zone data, hence UTC), and section 5 says what
happens elsewhere.

An **average** is kept as a total and a count, which is the same number without
rounding; a duration is a number of half seconds, so the default prediction of 1.5 s
is 3. **Payload hashes** are distinct for distinct payloads.

**Where a worker is** (`pc`), by line of `runWorker`:

| `pc` | between | next actions |
|---|---|---|
| `waiting` | the `select` (71) | `StartReserve` (first half of `Reserve`), `ReserveError`, `StopWorker` |
| `ranked` | the two halves of `Reserve` (`queue.go:172` and `176`) | `PickJob`, `FindNothing`, `ReserveError` |
| `announcing` | the busy report (89) | `SendBusy`, if the channel has room |
| `running` | the handler (92-106) | `CompleteJob`, `FailJob`, `ReportError` |
| `retiring` | the idle report (116, or 82) | `SendIdle`, if the channel has room |
| `off` | returned, or no process | `Restart` starts all workers |

`Report` drops the job whether the engine accepted the result or not, as lines
110 and 113 discard the error. The branch at lines 81-84 is modelled, and the
proof shows that it is dead: between two jobs `activeJob` is always false.

**The process.** A signal makes `server.Close()` and, in either order, the pool's
stop and the return of `main` happen: `Signal`, `StopPool`, `Shutdown`. `Crash`
is any other end of the process. Both empty memory and leave the tables.
`Restart` opens the database again with the default rules.

**Operator and clients.** `RequestEnqueue`, `RequestReplay`, `RequestRules` are
the handlers' calls at any moment the process exists. A request that is refused
changes nothing and is not a step.

**Handlers** (`Broker`). `Admit` decodes a request and draws its id, the clock in
nanoseconds: another handler may draw the same before the engine's lock decides.
`Store`, `Refuse` and `StoreError` are the three outcomes of `Enqueue`, `Answer`
and `LoseAnswer` the two fates of what the handler writes. The text of the three
409 answers tells a duplicate, a violated constraint and a failing database
apart; `refused` joins the first two. A client keeps what it was told when the
process ends. The throttle is left out because nothing ever sets it.

**The page** (`Simulator`). A callback reads the values of the render that
created it. `setJobs(f)` changes the newest list, `setJobs(v)` replaces it, and
the tick does the latter with `v` computed from what it read. A click is
rendered before any other callback runs (React flushes discrete events
synchronously); an update of a timer is rendered later (`Render`), and `Finish`,
the callback that ends an execution, may come before or after. An interval is
restarted by each render and is far longer than a render, so it fires at most
once for each (`ticked`). Which waiting jobs are due and how they rank is left
open, so every order is covered; a pause is a time without ticks; React's lanes,
by which a click's update can be shown before an earlier one of a timer, are not
modelled. Executions are timers, so `ClearQueue` does not end them.

**Scores and time** (`Ranking`). Time is in seconds and passes only while the
page shows all of its state: an update is rendered within milliseconds, so a
callback that reads an older render (`seenRunAt`) reads it within the second it
was rendered in. A tick sorts the due jobs by scores that it computes with the
current rules, and each idle worker shifts one: `HighestFirst` says which set may
start, ties either way. `Backoff` is a constant operator, of which the assumption
states that it is positive; TLC evaluates it for the page's own
(`BackoffSeconds`), and the scores are those of `PageScoreOf`. The stored
`priorityScore`, which only the table shows, is left out.

**What is shown** (`Console`). `metrics` is changed beside the jobs and never
computed from them. The result of an execution is counted in a function that
React calls once, or in development up to twice (`UpdaterCalls`); the two calls
count one result, as it is drawn outside. `SeenActiveJobId` is the active job of a
worker that a tick writes back. The switches decide what a tick may do: pausing
stops the ticks, not the executions. The banner and the log follow `Saturated`.

Operators whose comment says *Mutant* are deliberate faults of the definition
that follows them; `PROJECT.json` pairs each with the property that notices it.

## 3. Runs

| Run | Question | Bounds |
|---|---|---|
| `pool_safety` | Is a job ever executed twice at a time, lost without a failure, queued twice, counted twice, or moved off its lifecycle? Is the older of two like jobs reserved first? Does the process implement `TaskQueue`? | 2 workers, 2 ids, 3 requests (one payload twice), short and long executions, clock 0-1, one replay, one fault, one crash |
| `retries` | Are attempts counted right? Is a retry neither more than a part of a second early nor late? Does a reservation rank by the scores the rules give? | 2 workers, 1 id, `max_retries` 2 or -1, two rule lists that score its context differently, clock 0-6 with the first and the last tenth of each second, one replay |
| `recovery` | Is a pending job reserved in the end, and does a reservation end? | 2 workers, 1 id, channel of one slot, one fault, one crash, one shutdown, clock 0-2 |
| `broker` | Does what a client was told stay true? Do counters only grow? | 2 clients, 2 scrapers, 2 ids, 2 payloads, 1 worker, one replay, one crash |
| `ranking` | Which job does a tick start, and when? Does the page rank as the engine does? Is every waiting job started? | 3 ids (two on the page when it loads, of two contexts), 2 workers, 3 contexts, the slider position 30, one retry, one replay, one advance of the clock by 12 s, one busy worker throttles |
| `console` | Does the page execute a job twice at a time, or queue it twice? Do counters, rack and history agree with the list? | 2 workers, 2 ids, 2 hashes, no retry, one replay, StrictMode, a log of 2 entries |
| `telemetry_stall` | *(violated)* Is a pending job reserved with nobody receiving from the channel? | 1 worker, 2 ids, channel of two slots |
| `crash_orphan` | *(violated)* Does a reservation end after a crash? | 1 worker, 1 id |
| `stale_prediction` | *(violated)* Is an execution longer than twice the moving average flagged? | 1 worker, 2 ids of one context, executions of 0.5 s and 2 s |
| `resubmit` | *(violated)* Is only the payload of an active job refused? | 1 client, 1 worker, 2 ids, 1 payload |
| `auto_producer` | *(violated)* Is an accepted job of the page in its list? | 2 workers, 3 ids (one on the page when it loads), 2 hashes, one retry |
| `stress_lock` | *(violated)* Are the page's workers idle again when the stress lock is off? | as `auto_producer` |

**Properties.** `ExclusiveReservation`: a job a worker holds is reserved, and is
that worker's alone. `OrphansAccountedFor`: reserved rows that nobody holds are
no more than the failed operations plus, for each end of the process, the
workers it took along. `OneJobPerPayload`, `MetricsMatchTable`,
`LegalTransitions` (a step takes a row along the lifecycle only). `RetryBudget`:
at most `1 + max_retries` executions between replays, and exactly the dead rows
used them up. `BackoffSpacing`: a job that failed `n` times is reserved again more
than `2^n - 1` seconds after its last failure; `RetriesDue`: `2^n` seconds after it,
the query finds the job. Between the two lies what the code leaves open: the part
of a second that `run_at` lost. `FreshScores`: unless a second began, the rules
changed or a replay came since the last recomputation (`scoresStale`), each eligible
row carries a score that the rules gave it at some moment of the current second. It
is not obvious: a row that was reserved during the recomputation kept its old score,
and only the backoff of at least one second keeps it from being ranked by that
score. `OlderJobsFirst`: of two jobs with one context and base priority that may
start, the one enqueued in an earlier second is reserved, although a retry or a
replay gave it a later `run_at` than the other's, and although the two may have been
scored at different moments of the current second. It is said of rule lists under
which age counts (`RatesPositive`); an operator may post others.
`EligibleJobsRun` and
`ReservationsEnd` are the progress properties. `ImplementsTaskQueue`: every step
is one of the abstract queue or none; a job's stage, tries and taker are computed
from the row and from the workers' places.

`AnswersHold`: a job a client was told of has a row with the client's request,
and a refused payload or id is in the table, whatever happened since.
`CountersNeverFall`: of what `/metrics` declares to be counters, a scrape counts no
less than any answer before it showed, while the table has no more rows than are
read. Two scrapes under way may be answered in the other order than they read, so it
is said of the reading.

`ExclusiveExecution`: no two executions of one job or on one worker, and a job in
execution is listed as running unless it was cleared. The tick relies on it
(it starts what it saw waiting) and so does the end of an execution (it updates
what it finds). `StartsBounded`: no more than `maxRetries + 1` starts, times the
replays. `DoublesAreRevived`: of two queued jobs of a hash, a replay revived one; so
without a replay there are no two.

`StartsWhenDue`: what a tick starts is waiting now and its backoff is over now,
not only in the render it decides by. `OlderFirst`: of two due jobs of a context
and base priority the older is started first, whatever the sliders do meanwhile.
`OnboardingBypassesReports`: the promise of the rules panel, with the initial
rules. `RanksAsEngine`: the page orders any two waiting jobs as the engine would
with the same rules, those apart whose context an outranking rule favours (the
page multiplies by 12.0 where the engine does by 10.0). `DueJobsStart`: a waiting
job does not wait for ever, unless all workers are marked busy and none executes
(`Halted`), which the stress lock and ticks on old lists can bring about.

`RunningIsOnRack`: a job listed as running is the active job of a worker that is
shown busy, so "Active Execution" never exceeds the busy workers. `NothingUncounted`:
the counters cover every finished, dead or flagged job of the list. They may be
higher, after a tick wrote an old list back or React called an update twice.

**Why the bounds suffice.** The races are between two workers, or a worker and a
request, over one or two rows; two of each let every pair meet, and a third
worker or row adds no new kind of step. One fault, one crash and one replay can
strike at every point, and together. The clock reaches a second retry where
retries are the question (0-6), and a first one in `recovery`; in `pool_safety` it
stops before, as a try that is not due is a row that waits: what `OlderJobsFirst`
says of a job whose retry is due rests on `AgeDecides`. `pool_safety` has no
shutdown, which leaves the tables as a crash does (`ProcessEnds`), and `broker` none
either; the theorems have both. The first and the last tenth of a second (`Parts`)
are enough where the part is the question: what matters is whether an event comes
before another within its second. The other runs go from second to second. The
real channel has 100 slots; a channel of one or two is full after one or two reports
instead. In the passing runs somebody receives (`HasConsumer`), which is what a program that
embeds the pool must do; `broker.go` does not, which is what `telemetry_stall`
shows. Two clients are enough for two handlers
to draw one id or send one payload. `/metrics` reads 1000 rows, the model two
(`ListLimit`), which is as many as there are. The page's four workers are two, and
its threshold of three busy ones is two (`Saturation`); what is at stake is one
worker beside another. In `ranking` a step of 12 seconds is longer than the
first backoff (3 s), and enough for a report whose slider stands at 3.0 to overtake;
the same slider position, 30, is 3.0 for one rule and out of range for
another. In `console` a failed job dies at once, as a retry changes one counter
that nothing else reads, and the theorem has no such bound. Jobs, workers and clients are symmetric in the safety
runs: no definition orders or names them, and of the page's ids only those that
are not there from the start. Deadlock is checked in all runs.

**Fairness** (`Fairness` in `WorkerPool`). Weak fairness of a worker's own steps:
tickers fire and handlers return (`simulateTaskExecution` sleeps at most 2.4 s).
Strong fairness of a blocked send: Go serves the goroutines blocked on a channel
in FIFO order, so a send that becomes possible again and again happens although
other senders compete. Weak fairness of the receiver, of the clock (bounded by
`MaxTime`), of the end of `main` after a signal, and of `Restart`, which
`restart: unless-stopped` in `docker-compose.yml` provides after a crash; after a
deliberate stop it is the operator who starts the process again. No request,
heartbeat, error, signal or crash is obliged to happen.

`RankFairness` is weak fairness of the tick, of the rendering of an update, of the
clock and of the end of each execution: all are timers of the browser. A tick
is fair although each render replaces its interval: what renders is a click or
the end of an execution; the latter are finitely many between two ticks, and a
visitor leaves the page alone for an interval again and again. `DueJobsStart`
assumes a visitor who does not pause for ever; `Ranking` has no pause.

## 4. What is proved

TLAPS checks the proof modules for any sets of workers, ids, payloads, requests
and clients, any capacity and any bounds, and any lists of rules. They assume
`EngineAssumption` (the rules that an operator may install are lists of rules with
numbers for values), `BackoffAssumption` (the backoffs of a request, `2^n`, are
positive: the provers know no exponentiation), `PoolAssumption` (the pool is
finite), `RefinementAssumption`, `BrokerAssumption` (a table is finite),
`SimulatorAssumption`, `RankingAssumption` (backoffs are positive) and
`ConsoleAssumption` (the list is finite), which TLC evaluates on the runs. Nothing
is assumed of scores: the theorems that need a fact about them derive it from the
loops over the rules.

- `TypeCorrectness`, `ExclusiveReservations`, `LifecycleFollowed`,
  `Deduplication` (`WorkerPoolProofs`): `Spec` implies `[]TypeOK`,
  `[]ExclusiveReservation`, `LegalTransitions` and `[]OneJobPerPayload`.
- `ScoresAreFresh`, `AgeDecides`, `OrphansAccounted`, `EveryExecutionCounted`,
  `MetricsMatch` (`WorkerPoolProofs`): `Spec` implies `[]FreshScores`,
  `OlderJobsFirst`, `[]OrphansAccountedFor`, `[]ExecutionsCounted` and
  `[]MetricsMatchTable`.
- `PageScoreIsEngineScore` (`FoldProofs`): for every list of rules the page's loop
  gives the same score as `ComputePriorityScore`, unless a rule lets the job's
  context outrank age.
- `RetriesWithinBudget`, `RetriesAreSpaced`, `RetriesNotLate` (`RetryProofs`): `Spec`
  implies `[]RetryBudget`, `BackoffSpacing` and `[]RetriesDue`.
- `PoolImplementsTaskQueue` (`RefinementProofs`): `Spec => ImplementsTaskQueue`.
- `BrokerImplementsPool`, `AnswersAreKept`, `CountersGrow` (`BrokerProofs`):
  `BrokerSpec => Spec`, so that all of the above holds of the broker, and
  `BrokerSpec` implies `[]AnswersHold` and `CountersNeverFall`.
- `SimTypeCorrectness`, `SimExclusiveExecution`, `SimStartsBounded`
  (`SimulatorProofs`): `SimSpec` implies `[]SimTypeOK`, `[]ExclusiveExecution`,
  `[]StartsBounded`.
- `RankingIsSimulator`, `RankTypeCorrectness`, `StartedWhenDue`, `OlderStartsFirst`,
  `OnboardingFirst`, `RankedAsEngine` (`RankingProofs`): `RankSpec => SimSpec`, so
  that the above holds with scores and a clock, and `RankSpec` implies
  `[]RankTypeOK`, `StartsWhenDue`, `OlderFirst`, `OnboardingBypassesReports` and
  `[]RanksAsEngine`.
- `ConsoleIsSimulator`, `ConsoleTypeCorrectness`, `RunningOnRack`, `DoublesRevived`,
  `FinishedAreCounted` (`ConsoleProofs`): `ConsoleSpec => SimSpec`, and
  `ConsoleSpec` implies `[]ConsoleTypeOK`, `[]RunningIsOnRack`,
  `[]DoublesAreRevived`, `[]NothingUncounted`, with and without StrictMode.

**The process.** The inductive invariant `IInv` is `TypeOK /\
ExclusiveReservation /\ DownMeansOff`. None of the three stands alone. `Complete`
on a row that does not exist would create it without a request, so types need
the caller to hold the row (`HeldRow`). Exclusiveness needs to know that no
worker believes it holds a job when the process restarts, which is
`DownMeansOff`. The lifecycle then follows step by step, from `HeldRow` for the
two unguarded updates. For deduplication the invariant is stronger than the
property: `UniquePayloads`, over all rows and not the active ones only, is what
the UNIQUE column gives and what a replay preserves.

**The retry budget** is not inductive: that an execution is within the budget
depends on how many of the earlier ones were failures that were stored.
`AttemptsCounted` relates, for each row, the executions so far to the retry count
and to where its worker is; the budget follows from it and `IInv`.

**Spacing.** `BackoffKept` carries from a failure to the next reservation that
`run_at` is the second of the failure plus the backoff (`WaitsBackoff`). What the
lost part may amount to, nine tenths on either side, bounds the time between the
failure and the query from below and from above (`RunAtTells`).

**Fresh scores.** The property speaks of the rows that may be reserved now, the
invariant (`WaitingScores`) of every pending row: unless `scoresStale`, its score
is fresh or its time has not come. A score that was just computed is fresh
(`CurrentIsFresh`), an enqueued row's at age zero too, and both stay so until the
second ends (`FreshAllSecond`). That is why a failure between the two
critical sections, which leaves an old score, does no harm: its backoff is positive.

**Folds.** The folds of the community modules are recursive functions over the
subsets of a finite set, and what they yield is an induction. `FoldProofs` does it
by the least counterexample (`LeastOfNat`, from the well-founded order of the
library, which needs no operator as a parameter). It shows that the recursion has
a solution (`RecursionExists`), that a sum does not depend on the order in which
elements are chosen (`SumAnyOrder`) and grows by the element that is added
(`SumOfMore`), and that a loop over a list goes through one value per turn
(`LoopValues`). From this, for both loops over the rules: a score is a number, and
a number that depends on context, base priority and rules, plus the age times a
rate that is positive if the rules' rates are (`EngineScoreGrows`,
`PageScoreGrows`); and where no rule lets the context outrank age, the loops take
the same turns (`SameTurn`).

**Age.** `OlderJobsFirst` needs three invariants: `IInv`, `FreshScores`, and that no
row was inserted in the future (`InsertedInPast`), as `EffectiveAge` takes all
negative ages for zero and would make such rows equal. A second between two like
jobs is more than the parts by which the moments of their scores may differ, so the
scores do (`OlderScoresHigher`), and `run_at` decides nothing.

**Durations.** The sum of `MetricsMatchTable` is invariant together with the
count (`Measured`): `Complete` is the only step that changes a done row's
duration, and by `HeldRow` the row was not done before.

**Orphans and executions.** Both are counts: a step adds at most the held row of
one worker (`ReportError`), or those of all workers (`ProcessEndOrphans`), to the
orphans; `Complete` adds one row to those done and, by `HeldRow`, one that was not
done before (`CompleteCounted`).

**The refinement.** The taker of a job is a CHOOSE over the workers, which
`ExclusiveReservation` makes unique; each action of `WorkerPool` that touches a
row maps to one abstract action (`PickTakes`, `CompleteFinishes`,
`FailRetriesOrGivesUp`, `EnqueueSubmits`, `ReplayRevives`, `TakersVanish`), every
other to a stutter. `OneJobPerPayload`, the stored states and the retry counts
are the facts that the abstract guards need.

**The broker.** A call that was made has a request and an id (`CallsOK`), hence
`Store` is `RequestEnqueue` of some request. Answers are kept because no row is
ever deleted or gets another request (`RowsKept`). Counters grow because a done
row stays done and only a done row is anomalous (`CountedStay`), so that what any
scrape has read or shown is still in the table (`ExposedBounded`), of which a listing
that has room for it counts all (`ListingCountsAll`).

**The simulator.** A tick restores each property from what it saw, so the
invariant `SInv` says the same of the newest values and of `seen`, and how far the
two may be apart: until the tick of a render, whatever is in execution was seen
to be (`ExecutionsSeen`); for the starts, that a count in either list accounts for
all starts (`StartsOK`).

**Ranking.** `StartsWhenDue` and `OlderFirst` compare a decision on an old render
with the newest list, so the invariant (`DueSeen`) says how they may differ before
a tick: what was seen waiting still waits, for the same time, and what was not
seen waiting but does is in a backoff, because between a render and its tick only
ends of executions change the list, and each backoff is positive. Then no due job
is unseen, and of two like jobs the higher score is the greater age
(`HigherIsOlder`). `OnboardingBypassesReports` is arithmetic on the scores that
the initial rules give (`InitialScores`); `RanksAsEngine` is
`PageScoreIsEngineScore` for two jobs.

**The console.** As in `SInv`, each invariant speaks of the newest list and of
the rendered one (`OnRack`, `CountedIn`), since a tick restores the latter. The
rack also needs that the worker of an execution shows its job, in both, and the
duplicates that what is queued was seen to be queued (`QueuedSeen`).

Every invariant and action property of a passing run is stated by a theorem.
Out of the prover's reach and left to TLC: the three progress properties
(`EligibleJobsRun`, `ReservationsEnd`, `DueJobsStart`), which rest on fairness.

## 5. Where code and documents disagree

- `telemetry_stall`: `TelemetryChan()` has no caller, so after 100 reports
  (about 50 jobs, or less with heartbeats) every worker blocks for ever, one
  reserved job each.
- `crash_orphan`: a reservation has no lease and no recovery at start.
- `resubmit`: a payload whose job is done or dead is refused for ever, by the
  UNIQUE column and not by the duplicate check, which the README describes.
- `auto_producer`: each tick overwrites the job that its own auto-producer has
  just enqueued, so none of them is ever listed or executed.
- `stress_lock`: a tick under the lock marks idle workers as busy, and nothing but
  the end of an execution frees a worker, so the page stops when it is released.
- `stale_prediction`: `is_anomaly` compares with the prediction stored at
  enqueue, so an execution longer than twice the moving average goes unnoticed if
  its job was enqueued when the prediction was higher.

Seen while reading, and not shown by a run. `busyCount` is declared and not used
at `broker.go:107`, which the Go compiler rejects, and no file imports an SQLite
driver, so `sql.Open("sqlite", ...)` fails; the modules model the program as if
both were mended. `broker.go:90` speaks of a graceful shutdown; the process ends
with jobs in hand. Rules may change between the two critical sections of `Reserve`
(`queue.go:172`), which may then return a job that is not the highest-priority one.
The states `running` and `failed` are never stored. `evaluateBackpressure` counts
nothing and `producerThrottled` is never set, so no request is ever answered with
the 429 that `README.md:27` promises. `README.md:39` reschedules a job whose count
"is less than `max_retries`"; the code compares with `<=`, after the increment. It
reschedules "to `run_at = current_time + 2^retries seconds`", which is stored
without its part of a second: a job that fails at 5.95 s for the first time has a
`run_at` of 7 and may be reserved at 7.0 s, after 1.05 s and not 2 (`BackoffSpacing`
states what is left of the backoff). Where the local zone has daylight saving time,
the stored text of two times with different offsets does not sort as the times do:
when the clocks are set back by an hour, what was stored before the change and is
asked for after it may wait up to an hour longer, and a backoff that spans the
change may end at once. The counters of `/metrics` fall once the table has more than
1000 rows, as only the newest are counted.

On the page: `contentHash` is the first 12 bytes of the payload
(`App.tsx:467`), so all payloads of the form are duplicates of each other; a
tick on an old render can write an ended job back as running, for ever, and bring
it and its worker to a halt; the outranking factor is 12.0 (`App.tsx:575`), where
`priority.go:78` has 10.0, although the page "models the exact dynamic mechanics of
our compiled Go engine files" (`App.tsx:912`); "exceeds 80%" is reached at three of
four workers (`App.tsx:452`); "Keep last 15" keeps 16 (`App.tsx:459`); an anomaly is
drawn at random and shown as ">2x"; "of 4 workers busy" counts running jobs
(`App.tsx:977`), not workers; `backlogCount` only grows until a clear; the backlog
table is sorted by stored scores and without regard to backoffs (`App.tsx:1317`).

## 6. Plan, and what is not modelled

Done: the engine, the pool and its refinement of `TaskQueue`, the broker, the
page's queue, its ranking and its display, their runs, and the theorems above.
Left, in this order:

1. Which reorderings of a rule list leave every score as it is: the weight of an
   outranking rule depends on the starvation rules ahead of it.
2. `Broker`: the gauges of `/metrics`, and its counters over more rows than it
   reads.

Not modelled, because it keeps no state that an operation of the queue reads or
is a view of what is modelled: the dashboard; the page's tab bar, its code
explorer with the copy button, its benchmark tab; loads, durations and averages of
the page, which are drawn at random; the scores stored for its backlog table; the
listing (`ListJobs`) and the gauges of `/metrics`; `evaluateBackpressure`, which
changes nothing; `config.yaml`, read by nothing; build files; SQLite and its
driver's connection pool (external; a transaction is atomic and an operation may
fail); float64 rounding.
