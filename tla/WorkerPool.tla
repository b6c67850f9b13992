----------------------------- MODULE WorkerPool -----------------------------
(***************************************************************************)
(* The broker process: the worker goroutines of worker/worker.go running   *)
(* over the engine, the telemetry channel they share with the reporter,    *)
(* the requests that reach the engine from outside, and the life of the    *)
(* process (broker/broker.go: start, signal, shutdown, and a crash).       *)
(*                                                                         *)
(* A worker is between two statements of runWorker:                        *)
(*   waiting     in the select, for a tick or for the stop channel         *)
(*   ranked      inside Reserve, between its two critical sections         *)
(*   announcing  sending the busy report, a job already reserved           *)
(*   running     in the job's handler                                      *)
(*   retiring    sending the idle report                                   *)
(*   off         returned, or the process is down                          *)
(***************************************************************************)
EXTENDS Engine

CONSTANTS
    Workers,          \* worker goroutines
    NoJob,            \* what a worker holds between two jobs
    ChanCap,          \* capacity of telemetryChan
    HasConsumer,      \* does anything receive from TelemetryChan()?
    MaxReplays,       \* bound on DLQ replays
    MaxFaults,        \* bound on failing database operations
    MaxCrashes,       \* bound on the crashes of the process
    MaxShutdowns      \* bound on the shutdowns by a signal

ASSUME PoolAssumption ==
    /\ IsFiniteSet(Workers)
    /\ NoJob \notin Ids
    /\ ChanCap \in Nat \ {0}
    /\ HasConsumer \in BOOLEAN
    /\ MaxReplays \in Nat
    /\ MaxFaults \in Nat
    /\ MaxCrashes \in Nat
    /\ MaxShutdowns \in Nat

VARIABLES
    pc,           \* where each worker is
    held,         \* the job each worker's local variable job names
    activeJob,    \* each worker's local variable activeJob
    telemetry,    \* reports buffered in telemetryChan
    proc,         \* "up", "closing" once a signal came, or "down"
    stopped,      \* stopChan is closed
    replays,      \* DLQ replays so far
    faults,       \* failed database operations so far
    crashes,      \* crashes so far
    shutdowns,    \* completed shutdowns so far
    runs,         \* history: handler executions of each job
    scoresStale,  \* history: new rules, a replay, a restart or a second that
                  \* began since the last recomputation
    failedAt      \* history: when each job's last failure was recorded

workerVars  == <<pc, held, activeJob>>
processVars == <<proc, stopped>>
boundVars   == <<replays, faults, crashes, shutdowns>>
history     == <<runs, scoresStale, failedAt>>
poolVars    == <<workerVars, telemetry, processVars, boundVars, history>>
vars        == <<engineVars, poolVars>>

Place == {"waiting", "ranked", "announcing", "running", "retiring", "off"}

TypeOK ==
    /\ EngineTypeOK
    /\ pc \in [Workers -> Place]
    /\ held \in [Workers -> Ids \cup {NoJob}]
    /\ activeJob \in [Workers -> BOOLEAN]
    /\ telemetry \in 0 .. ChanCap
    /\ proc \in {"up", "closing", "down"}
    /\ stopped \in BOOLEAN
    /\ replays \in 0 .. MaxReplays
    /\ faults \in 0 .. MaxFaults
    /\ crashes \in 0 .. MaxCrashes
    /\ shutdowns \in 0 .. MaxShutdowns
    /\ runs \in [Ids -> Nat]
    /\ scoresStale \in BOOLEAN
    /\ failedAt \in [Ids -> Nat]

Init ==
    /\ EngineInit
    /\ pc = [w \in Workers |-> "waiting"]
    /\ held = [w \in Workers |-> NoJob]
    /\ activeJob = [w \in Workers |-> FALSE]
    /\ telemetry = 0
    /\ proc = "up"
    /\ stopped = FALSE
    /\ replays = 0
    /\ faults = 0
    /\ crashes = 0
    /\ shutdowns = 0
    /\ runs = [i \in Ids |-> 0]
    /\ scoresStale = FALSE
    /\ failedAt = [i \in Ids |-> 0]

-----------------------------------------------------------------------------
(* The loop of runWorker *)

Goto(w, from, to) == pc[w] = from /\ pc' = [pc EXCEPT ![w] = to]

Send == telemetry < ChanCap /\ telemetry' = telemetry + 1

\* A tick: the first critical section of Reserve.
StartReserve(w) ==
    /\ Goto(w, "waiting", "ranked")
    /\ RecomputePriorities
    /\ scoresStale' = FALSE
    /\ UNCHANGED <<held, activeJob, telemetry, processVars, boundVars, runs,
                   failedAt>>

\* The second critical section finds a job.
PickJob(w, i) ==
    /\ Goto(w, "ranked", "announcing")
    /\ SelectJob(i)
    /\ held' = [held EXCEPT ![w] = i]
    /\ activeJob' = [activeJob EXCEPT ![w] = TRUE]
    /\ UNCHANGED <<telemetry, processVars, boundVars, history>>

\* Reserve returned an error: ErrNoJobFound, or one of the database, from
\* either of its transactions, which then rolls back.
NoReservation(w, from) ==
    /\ Goto(w, from, IF activeJob[w] THEN "retiring" ELSE "waiting")
    /\ UNCHANGED <<engineVars, held, activeJob, telemetry, processVars,
                   replays, crashes, shutdowns, history>>

FindNothing(w) ==
    Eligible = {} /\ NoReservation(w, "ranked") /\ UNCHANGED faults

Fault == faults < MaxFaults /\ faults' = faults + 1

ReserveError(w) ==
    Fault /\ \E from \in {"waiting", "ranked"} : NoReservation(w, from)

SendBusy(w) ==
    /\ Goto(w, "announcing", "running")
    /\ Send
    /\ runs' = [runs EXCEPT ![held[w]] = @ + 1]
    /\ UNCHANGED <<engineVars, held, activeJob, processVars, boundVars,
                   scoresStale, failedAt>>

\* The handler returned; its result is recorded and the job forgotten.  Both
\* results are possible for every job: simulateTaskExecution may fail any.
Report(w) ==
    /\ Goto(w, "running", "retiring")
    /\ held' = [held EXCEPT ![w] = NoJob]
    /\ UNCHANGED <<activeJob, telemetry, processVars, replays, crashes,
                   shutdowns, runs, scoresStale>>

\* Mutants: the result is not recorded.
CompleteJobForgotten(w, cpu) ==
    Report(w) /\ UNCHANGED <<engineVars, faults, failedAt>>
FailJobForgotten(w) == Report(w) /\ UNCHANGED <<engineVars, faults, failedAt>>

CompleteJob(w, cpu) ==
    /\ Report(w)
    /\ Complete(held[w], cpu)
    /\ UNCHANGED <<faults, failedAt>>

FailJob(w) ==
    /\ Report(w)
    /\ Fail(held[w])
    /\ failedAt' = [failedAt EXCEPT ![held[w]] = Clock]
    /\ UNCHANGED faults

\* The transaction rolls back and the worker ignores the error.
ReportError(w) == Report(w) /\ Fault /\ UNCHANGED <<engineVars, failedAt>>

SendIdle(w) ==
    /\ Goto(w, "retiring", "waiting")
    /\ Send
    /\ activeJob' = [activeJob EXCEPT ![w] = FALSE]
    /\ UNCHANGED <<engineVars, held, processVars, boundVars, history>>

StopWorker(w) ==
    /\ stopped
    /\ Goto(w, "waiting", "off")
    /\ UNCHANGED <<engineVars, held, activeJob, telemetry, processVars,
                   boundVars, history>>

-----------------------------------------------------------------------------
(* The other ends of the telemetry channel *)

Heartbeat ==
    /\ proc # "down"
    /\ Send
    /\ UNCHANGED <<engineVars, workerVars, processVars, boundVars, history>>

\* broker.go never calls TelemetryChan(); a program that embeds the pool may.
Receive ==
    /\ HasConsumer
    /\ telemetry > 0
    /\ telemetry' = telemetry - 1
    /\ UNCHANGED <<engineVars, workerVars, processVars, boundVars, history>>

-----------------------------------------------------------------------------
(* Requests that reach the engine through the broker *)

Request ==
    /\ proc # "down"
    /\ UNCHANGED <<workerVars, telemetry, processVars, runs, failedAt>>

RequestEnqueue(i, q) ==
    /\ Request
    /\ Enqueue(i, q)
    /\ UNCHANGED <<boundVars, scoresStale>>

RequestReplay ==
    /\ Request
    /\ replays < MaxReplays
    /\ replays' = replays + 1
    /\ DLQReplay
    /\ scoresStale' = TRUE
    /\ UNCHANGED <<faults, crashes, shutdowns>>

RequestRules(r) ==
    /\ Request
    /\ SetRules(r)
    /\ scoresStale' = TRUE
    /\ UNCHANGED boundVars

-----------------------------------------------------------------------------
(* The process *)

TimePasses ==
    /\ Tick
    /\ scoresStale' = (scoresStale \/ now' # now)
    /\ UNCHANGED <<workerVars, telemetry, processVars, boundVars, runs, failedAt>>

\* SIGINT or SIGTERM: server.Close() makes ListenAndServe return in main.
Signal ==
    /\ proc = "up"
    /\ shutdowns < MaxShutdowns
    /\ proc' = "closing"
    /\ UNCHANGED <<engineVars, workerVars, telemetry, stopped, boundVars, history>>

\* pool.Stop() in the signal handler or cancel() in main, whichever is first.
StopPool ==
    /\ proc = "closing"
    /\ ~stopped
    /\ stopped' = TRUE
    /\ UNCHANGED <<engineVars, workerVars, telemetry, proc, boundVars, history>>

\* Whatever was in memory is gone, the database stays.
ProcessEnds ==
    /\ proc' = "down"
    /\ stopped' = FALSE
    /\ pc' = [w \in Workers |-> "off"]
    /\ held' = [w \in Workers |-> NoJob]
    /\ activeJob' = [w \in Workers |-> FALSE]
    /\ telemetry' = 0
    /\ UNCHANGED <<engineVars, replays, faults, history>>

\* main returns: it waits for no worker.
Shutdown ==
    /\ proc = "closing"
    /\ shutdowns < MaxShutdowns
    /\ ProcessEnds
    /\ shutdowns' = shutdowns + 1
    /\ UNCHANGED crashes

\* A panicking handler, a kill, a power failure.
Crash ==
    /\ proc # "down"
    /\ crashes < MaxCrashes
    /\ ProcessEnds
    /\ crashes' = crashes + 1
    /\ UNCHANGED shutdowns

Restart ==
    /\ proc = "down"
    /\ proc' = "up"
    /\ pc' = [w \in Workers |-> "waiting"]
    /\ NewEngine
    /\ scoresStale' = TRUE
    /\ UNCHANGED <<held, activeJob, telemetry, stopped, boundVars, runs, failedAt>>

-----------------------------------------------------------------------------

Worker(w) ==
    \/ StartReserve(w)
    \/ \E i \in Ids : PickJob(w, i)
    \/ FindNothing(w)
    \/ ReserveError(w)
    \/ SendBusy(w)
    \/ \E cpu \in Durations : CompleteJob(w, cpu)
    \/ FailJob(w)
    \/ ReportError(w)
    \/ SendIdle(w)
    \/ StopWorker(w)

Client ==
    \/ \E i \in Ids, q \in Requests : RequestEnqueue(i, q)
    \/ RequestReplay
    \/ \E r \in RuleSets : RequestRules(r)

Next ==
    \/ \E w \in Workers : Worker(w)
    \/ Client
    \/ Heartbeat
    \/ Receive
    \/ TimePasses
    \/ Signal
    \/ StopPool
    \/ Shutdown
    \/ Crash
    \/ Restart

Spec == Init /\ [][Next]_vars

-----------------------------------------------------------------------------
(* Fairness: tickers fire, handlers return, time passes, a supervisor      *)
(* restarts the process.  A goroutine blocked on a channel waits in a FIFO *)
(* queue, so a send that is possible again and again happens.  Requests,   *)
(* heartbeats, errors, signals and crashes are never obliged to happen.    *)

Proceed(w) ==
    \/ StartReserve(w)
    \/ \E i \in Ids : PickJob(w, i)
    \/ FindNothing(w)
    \/ \E cpu \in Durations : CompleteJob(w, cpu)
    \/ FailJob(w)
    \/ StopWorker(w)

Fairness ==
    /\ \A w \in Workers : /\ WF_vars(Proceed(w))
                          /\ SF_vars(SendBusy(w))
                          /\ SF_vars(SendIdle(w))
    /\ WF_vars(Receive)
    /\ WF_vars(TimePasses)
    /\ WF_vars(StopPool)
    /\ WF_vars(Shutdown)
    /\ WF_vars(Restart)

FairSpec == Spec /\ Fairness

-----------------------------------------------------------------------------
(* Safety *)

\* A job a worker is announcing or running is reserved, and it is that
\* worker's alone: the UPDATE of Reserve and the mutex keep two workers off
\* one row, although Complete and Fail check no state.
ExclusiveReservation ==
    /\ \A w \in Workers :
          /\ held[w] # NoJob <=> pc[w] \in {"announcing", "running"}
          /\ held[w] # NoJob => state[held[w]] = "reserved"
    /\ \A v, w \in Workers : held[v] = held[w] => v = w \/ held[v] = NoJob

Orphans == {i \in Ids : state[i] = "reserved" /\ \A w \in Workers : held[w] # i}

\* A reserved row no worker holds is never reserved again.  Each comes from a
\* failed Complete or Fail, or from a worker that went away with the process:
\* no other sequence of calls loses a job.
OrphansAccountedFor ==
    Cardinality(Orphans)
        <= faults + (crashes + shutdowns) * Cardinality(Workers)

\* At most one row of a payload waits or runs, although a replay revives the
\* dead and two connections may send a payload at once: no payload is sent
\* again while a row of it exists, dead or not.
OneJobPerPayload ==
    \A i, k \in Rows : /\ state[i] \in Active
                       /\ state[k] \in Active
                       /\ req[i].payload = req[k].payload
                       => i = k

AllowedTries(q) == 1 + (IF q.maxRetries > 0 THEN q.maxRetries ELSE 0)

Allowed(i) == AllowedTries(req[i])

\* A handler runs at most 1 + max_retries times for a job, and as often again
\* after each replay; a dead job used all its retries and no other did.
RetryBudget ==
    \A i \in Rows : /\ runs[i] <= (replays + 1) * Allowed(i)
                    /\ retries[i] = Allowed(i) <=> state[i] = "dead"
                    /\ retries[i] <= Allowed(i)

\* A row carries the score that the rules give it at some moment of the current
\* second.
Fresh(i) ==
    \E p \in 0 .. part : score[i] = ScoreAt(i, 10 * (now - createdAt[i]) + p)

\* Unless a second began, the rules changed or a replay came since the last
\* recomputation, what a reservation ranks is fresh: an enqueue, or a failure
\* between a worker's two critical sections, brings in no row with an outdated
\* score.
FreshScores == ~scoresStale => \A i \in Eligible : Fresh(i)

\* A job that failed n times since it was enqueued or replayed may be reserved
\* again as soon as 2^n seconds have passed since the failure, whatever ended or
\* restarted: a run_at without its part of a second is never late.
RetriesDue ==
    \A i \in Rows :
        /\ state[i] = "pending"
        /\ retries[i] > 0
        /\ Clock - failedAt[i] >= 10 * 2 ^ retries[i]
        => i \in Eligible

Done(c) == {i \in Rows : state[i] = "done" /\ req[i].context = c}

\* No execution is counted twice or missed in job_metrics, whatever failed, was
\* retried or crashed.
ExecutionsCounted ==
    \A c \in Contexts : jobMetrics[c].count = Cardinality(Done(c))

\* Nor is its duration: the moving average of a context is that of its done rows.
MetricsMatchTable ==
    /\ ExecutionsCounted
    /\ \A c \in Contexts :
          jobMetrics[c].sum = MapThenSumSet(LAMBDA i : realCpu[i], Done(c))

-----------------------------------------------------------------------------
(* Steps *)

Lifecycle == {<<"absent", "pending">>, <<"pending", "reserved">>,
              <<"reserved", "pending">>, <<"reserved", "done">>,
              <<"reserved", "dead">>, <<"dead", "pending">>}

\* A row changes state along the lifecycle only: what is done stays done, and
\* Complete and Fail, which do not look, only ever meet a reserved row.
LegalTransitions ==
    [][\A i \in Ids : state'[i] # state[i] => <<state[i], state'[i]>> \in Lifecycle]_vars

Reserving(i) == state[i] = "pending" /\ state'[i] = "reserved"

LikeJobs(i, k) == req[i].context = req[k].context /\ req[i].base = req[k].base

\* Of two jobs of one context and base priority that may start, the one enqueued
\* in an earlier second is reserved first, although a retry or a replay gave it a
\* later run_at: under any rules that let age count for a job, and unless a second
\* began, the rules changed or a replay came since the last recomputation.
OlderJobsFirst ==
    [][\A i \in Ids : \A k \in Eligible :
          Reserving(i) /\ LikeJobs(i, k) /\ RatesPositive(rules) /\ ~scoresStale
          => createdAt[i] <= createdAt[k]]_vars

\* A job that failed n times since it was enqueued or replayed is not reserved
\* again until more than 2^n - 1 seconds have passed since the failure.  Of the
\* 2^n seconds of the backoff, up to a second is lost with the part that run_at
\* was stored without.
BackoffSpacing ==
    [][\A i \in Ids : Reserving(i) /\ retries[i] > 0
                      => Clock - failedAt[i] > 10 * (2 ^ retries[i] - 1)]_vars

-----------------------------------------------------------------------------
(* Progress *)

\* A pending job whose time comes within the clock's bound is reserved.
EligibleJobsRun ==
    \A i \in Ids :
        (state[i] = "pending" /\ runAt[i] <= MaxTime) ~> state[i] # "pending"

\* Unless the database fails or the process ends, a reservation does: the job
\* is done, dead or waits for its next try, however the workers, the reporter
\* and the receiver share the channel.
ReservationsEnd ==
    \A i \in Ids : state[i] = "reserved"
                    ~> state[i] # "reserved" \/ faults + crashes + shutdowns > 0

-----------------------------------------------------------------------------
(* What the code's comments and documents say, and the code does not do *)

\* README.md: a job moves on from "reserved".
ReservedSettles ==
    \A i \in Ids : state[i] = "reserved" ~> state[i] # "reserved"

\* README.md: an execution that takes "longer than 2x its context's moving
\* average" is flagged.
AnomalyAgainstMovingAverage ==
    [][\A i \in Ids : state[i] = "reserved" /\ state'[i] = "done" =>
          LET m == jobMetrics[req[i].context]
          IN  m.count > 0 /\ realCpu'[i] * m.count > 2 * m.sum => anomaly'[i]]_vars

=============================================================================
