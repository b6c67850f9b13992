------------------------------ MODULE Console ------------------------------
(***************************************************************************)
(* What the simulator of the web page counts and displays (src/App.tsx):   *)
(* its metrics, the backpressure banner and log, the jobs that workers     *)
(* show, and the switches.  Every action is one of Simulator, with what it *)
(* does to these.                                                          *)
(*                                                                         *)
(* The metrics of an execution are set inside the function that updates    *)
(* the jobs.  React calls such a function once, or, in development, where  *)
(* main.tsx asks for StrictMode, possibly twice.                           *)
(*                                                                         *)
(* Left out: averages and durations (whether an execution was an anomaly   *)
(* is drawn at random by the code), CPU and memory loads, times, the rate  *)
(* and speed of timers.                                                    *)
(***************************************************************************)
EXTENDS Simulator

CONSTANTS
    StrictMode,         \* the page runs in development
    NoJob,              \* a worker's activeJobId is undefined
    Kept                \* throttled attempts that a new one leaves in the log

ASSUME ConsoleAssumption ==
    /\ StrictMode \in BOOLEAN
    /\ NoJob \notin Ids
    /\ Kept \in Nat
    /\ IsFiniteSet(Ids)

VARIABLES
    isPlaying,
    autoProducer,
    isAnomaly,          \* of each job, as all updates so far make it
    activeJobId,        \* of each worker, likewise
    seenJobs,           \* isAnomaly and activeJobId in the last render
    metrics,
    backpressureActive, \* the banner is shown
    throttledAttempts,  \* entries of the log
    revived             \* history: listed jobs that a replay brought back

display     == <<isAnomaly, activeJobId>>
switches    == <<isPlaying, autoProducer>>
alerts      == <<backpressureActive, throttledAttempts>>
consoleVars == <<vars, display, switches, alerts, seenJobs, metrics, revived>>

QueueMetrics ==
    [totalEnqueued : Nat, completedCount : Nat, failedCount : Nat,
     deadCount : Nat, backlogCount : Nat, anomalyCount : Nat]

DisplayedJobs ==
    [isAnomaly : [Ids -> BOOLEAN], activeJobId : [Workers -> Ids \cup {NoJob}]]

RenderedJobs == [isAnomaly |-> isAnomaly, activeJobId |-> activeJobId]

\* How often React calls the function that updates the jobs.
UpdaterCalls == IF StrictMode THEN {1, 2} ELSE {1}

ConsoleTypeOK ==
    /\ isPlaying \in BOOLEAN
    /\ autoProducer \in BOOLEAN
    /\ RenderedJobs \in DisplayedJobs
    /\ seenJobs \in DisplayedJobs
    /\ metrics \in QueueMetrics
    /\ backpressureActive \in BOOLEAN
    /\ throttledAttempts \in 0 .. Kept + 1
    /\ revived \subseteq Ids

ConsoleInit ==
    /\ SimInit
    /\ isPlaying = TRUE
    /\ autoProducer = TRUE
    /\ isAnomaly = [i \in Ids |-> FALSE]
    /\ activeJobId = [w \in Workers |-> NoJob]
    /\ seenJobs = RenderedJobs
    /\ metrics = [totalEnqueued |-> Cardinality(Seeds), completedCount |-> 0,
                  failedCount |-> 0, deadCount |-> 0,
                  backlogCount |-> Cardinality(Seeds), anomalyCount |-> 0]
    /\ backpressureActive = FALSE
    /\ throttledAttempts = 0
    /\ revived = {}

-----------------------------------------------------------------------------
(* The panels, as the next render fills them *)

\* queueStats; no job of the page is ever reserved or failed.
QueueStats(s) ==
    [n \in {"pending", "running", "done", "dead"} |->
        Cardinality({i \in Ids : s[i] = n})]

\* On the rack, which shows the context of a busy worker's job.
ShownBusy(w) == backpressureLock \/ busy[w]

\* The execution history, of which the last 8 rows are shown, and those of its
\* rows with the anomaly badge.
HistoryRows == {i \in Ids : state[i] \in {"done", "dead"}}

FlaggedRows == {i \in HistoryRows : state[i] # "dead" /\ isAnomaly[i]}

-----------------------------------------------------------------------------
(* What a visitor does *)

ConsoleClick == seenJobs' = RenderedJobs'

CountEnqueued ==
    metrics' = [metrics EXCEPT !.totalEnqueued = @ + 1, !.backlogCount = @ + 1]

\* Mutant: no entry is dropped.
LogWithoutLimit == throttledAttempts' = throttledAttempts + 1

LogThrottled ==
    throttledAttempts' = 1 + (IF throttledAttempts > Kept THEN Kept ELSE throttledAttempts)

FormAccepted(i, h) ==
    /\ FormSubmit(i, h)
    /\ CountEnqueued
    /\ backpressureActive' = FALSE
    /\ UNCHANGED <<display, switches, throttledAttempts, revived>>
    /\ ConsoleClick

FormThrottled ==
    /\ Saturated
    /\ backpressureActive' = TRUE
    /\ LogThrottled
    /\ Render
    /\ UNCHANGED <<display, switches, metrics, revived>>
    /\ ConsoleClick

\* The alert about an active job with the same payload.
FormDuplicate(h) ==
    /\ ~Saturated
    /\ IsDuplicate(h)
    /\ backpressureActive' = FALSE
    /\ Render
    /\ UNCHANGED <<display, switches, throttledAttempts, metrics, revived>>
    /\ ConsoleClick

Difference(m, n) == IF m > n THEN m - n ELSE 0

\* The button is there while dead jobs are shown.  Counted are the dead jobs of
\* the render, revived those of the newest list.
ReplayDead ==
    LET deadJobs == QueueStats(seen.state)["dead"] IN
    /\ deadJobs > 0
    /\ DLQReplay
    /\ metrics' = [metrics EXCEPT !.deadCount = Difference(@, deadJobs),
                                  !.backlogCount = @ + deadJobs]
    /\ revived' = revived \cup {i \in Ids : state[i] = "dead"}
    /\ UNCHANGED <<display, switches, alerts>>
    /\ ConsoleClick

ClearConsole ==
    /\ ClearQueue
    /\ isAnomaly' = [i \in Ids |-> FALSE]
    /\ throttledAttempts' = 0
    /\ metrics' = [metrics EXCEPT !.completedCount = 0, !.failedCount = 0,
                                  !.deadCount = 0, !.backlogCount = 0,
                                  !.anomalyCount = 0]
    /\ revived' = {}
    /\ UNCHANGED <<activeJobId, switches, backpressureActive>>
    /\ ConsoleClick

StressLock ==
    /\ ToggleLock
    /\ UNCHANGED <<display, switches, alerts, metrics, revived>>
    /\ ConsoleClick

\* Play or pause; or another speed, which restarts the interval.
PlayPause ==
    /\ isPlaying' = ~isPlaying \/ UNCHANGED isPlaying
    /\ Render
    /\ UNCHANGED <<display, autoProducer, alerts, metrics, revived>>
    /\ ConsoleClick

\* The auto-producer's button; or its rate, shown while it is on.
SwitchProducer ==
    /\ autoProducer' = ~autoProducer \/ (autoProducer /\ UNCHANGED autoProducer)
    /\ Render
    /\ UNCHANGED <<display, isPlaying, alerts, metrics, revived>>
    /\ ConsoleClick

-----------------------------------------------------------------------------
(* Timers *)

\* An attempt of the auto-producer is accepted, refused and logged, or a
\* duplicate and ignored.
Produce ==
    \/ /\ hash' = hash
       /\ UNCHANGED <<metrics, throttledAttempts>>
    \/ /\ autoProducer
       /\ Saturated
       /\ LogThrottled
       /\ UNCHANGED metrics
    \/ /\ autoProducer
       /\ hash' # hash
       /\ CountEnqueued
       /\ UNCHANGED throttledAttempts

\* Mutant: the worker's job is kept as it is now.
NewestActiveJobId(w) == activeJobId[w]

SeenActiveJobId(w) == seenJobs.activeJobId[w]

\* The workers given a job show it; the others, and all jobs, are written back
\* as they were seen.
ConsoleTick ==
    /\ isPlaying
    /\ Tick
    /\ Produce
    /\ backpressureActive' = Saturated
    /\ isAnomaly' = seenJobs.isAnomaly
    /\ \E shown \in [Workers -> Ids \cup {NoJob}] :
          /\ \A w \in Workers :
                LET given == {e \in executions' \ executions : e.worker = w} IN
                IF given = {} THEN shown[w] = SeenActiveJobId(w)
                              ELSE \E e \in given : shown[w] = e.job
          /\ activeJobId' = shown
    /\ UNCHANGED <<switches, seenJobs, revived>>

\* Mutant: a job that dies is counted as one more failure.
CountedAsFailed(s, anomaly, n) ==
    LET more(c) == IF c THEN n ELSE 0 IN
    [metrics EXCEPT !.failedCount    = @ + more(s \in {"pending", "dead"}),
                    !.completedCount = @ + more(s = "done"),
                    !.anomalyCount   = @ + more(s = "done" /\ anomaly)]

\* The counters after an execution that left its job in state s.
Counted(s, anomaly, n) ==
    LET more(c) == IF c THEN n ELSE 0 IN
    [metrics EXCEPT !.failedCount    = @ + more(s = "pending"),
                    !.deadCount      = @ + more(s = "dead"),
                    !.completedCount = @ + more(s = "done"),
                    !.anomalyCount   = @ + more(s = "done" /\ anomaly)]

ConsoleFinish(e) ==
    /\ Finish(e)
    /\ activeJobId' = [activeJobId EXCEPT ![e.worker] = NoJob]
    /\ \E anomaly \in BOOLEAN, n \in UpdaterCalls :
          /\ metrics' = Counted(state'[e.job], anomaly, n)
          /\ isAnomaly' = IF state'[e.job] = "done"
                          THEN [isAnomaly EXCEPT ![e.job] = anomaly]
                          ELSE isAnomaly
    /\ UNCHANGED <<switches, alerts, seenJobs, revived>>

ConsoleRender ==
    /\ Render
    /\ seenJobs' = RenderedJobs
    /\ UNCHANGED <<display, switches, alerts, metrics, revived>>

-----------------------------------------------------------------------------

ConsoleNext ==
    \/ \E i \in Ids, h \in Hashes : FormAccepted(i, h)
    \/ FormThrottled
    \/ \E h \in Hashes : FormDuplicate(h)
    \/ ReplayDead
    \/ ClearConsole
    \/ StressLock
    \/ PlayPause
    \/ SwitchProducer
    \/ ConsoleTick
    \/ \E e \in executions : ConsoleFinish(e)
    \/ ConsoleRender

ConsoleSpec == ConsoleInit /\ [][ConsoleNext]_consoleVars

-----------------------------------------------------------------------------
(* Properties *)

\* A job listed as running is the active job of a worker that the rack shows
\* busy, in whatever order ticks write old lists back and executions end:
\* "Active Execution" never counts more jobs than workers are shown busy.
RunningIsOnRack ==
    \A i \in Ids : state[i] = "running" =>
        \E w \in Workers : ShownBusy(w) /\ activeJobId[w] = i

\* Every finished job in the list is counted, every dead one and every one with
\* the anomaly badge too, although a replay subtracts what a render showed and
\* ticks restore old lists.  The counters may be higher.
NothingUncounted ==
    /\ metrics.completedCount >= QueueStats(state)["done"]
    /\ metrics.deadCount >= QueueStats(state)["dead"]
    /\ metrics.anomalyCount >= Cardinality(FlaggedRows)

\* "Active payloads strictly locked by content hash keys": of two queued jobs of
\* one hash, one is a dead job that a replay brought back.
DoublesAreRevived ==
    \A i, k \in Ids : /\ hash[i] = hash[k]
                      /\ state[i] \in Active
                      /\ state[k] \in Active
                      /\ i # k
                      => i \in revived \/ k \in revived

=============================================================================
