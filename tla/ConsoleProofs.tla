--------------------------- MODULE ConsoleProofs ---------------------------
(***************************************************************************)
(* What the page displays agrees with its queue, for any jobs, workers and *)
(* bounds, in production and in development.                               *)
(*                                                                         *)
(* Console takes only steps of Simulator, so its theorems hold here too.   *)
(* As there, a tick restores what it saw, so each invariant says the same  *)
(* of the newest values and of the render's.                               *)
(***************************************************************************)
EXTENDS Console, SimulatorProofs, FiniteSetTheorems

-----------------------------------------------------------------------------
(* The page with its display is the page *)

LEMMA ConsoleStep == [ConsoleNext]_consoleVars => [SimNext]_vars
<1> SUFFICES ASSUME [ConsoleNext]_consoleVars PROVE [SimNext]_vars
    OBVIOUS
<1>1. CASE UNCHANGED consoleVars
    BY <1>1 DEF consoleVars
<1>2. CASE \E i \in Ids, h \in Hashes : FormAccepted(i, h)
    BY <1>2 DEF FormAccepted, SimNext
<1>3. CASE FormThrottled \/ (\E h \in Hashes : FormDuplicate(h))
    BY <1>3 DEF FormThrottled, FormDuplicate, SimNext
<1>4. CASE ReplayDead \/ ClearConsole \/ StressLock
    BY <1>4 DEF ReplayDead, ClearConsole, StressLock, SimNext
<1>5. CASE PlayPause \/ SwitchProducer \/ ConsoleRender
    BY <1>5 DEF PlayPause, SwitchProducer, ConsoleRender, SimNext
<1>6. CASE ConsoleTick
    BY <1>6 DEF ConsoleTick, SimNext
<1>7. CASE \E e \in executions : ConsoleFinish(e)
    BY <1>7 DEF ConsoleFinish, SimNext
<1>8. QED
    BY <1>1, <1>2, <1>3, <1>4, <1>5, <1>6, <1>7 DEF ConsoleNext

\* Whatever the page counts and displays, its queue only takes steps of
\* Simulator, so that every theorem about it holds of the page.
THEOREM ConsoleIsSimulator == ConsoleSpec => SimSpec
<1>1. ConsoleInit => SimInit
    BY DEF ConsoleInit
<1>2. QED
    BY <1>1, ConsoleStep, PTL DEF ConsoleSpec, SimSpec

LEMMA ConsoleSInv == ConsoleSpec => []SInv
    BY ConsoleIsSimulator, SimInvariance, PTL

-----------------------------------------------------------------------------
(* The rack *)

\* Of a list of jobs and one of workers: each running job is a busy worker's.
OnRack(s, b, a) ==
    \A i \in Ids : s[i] = "running" => \E w \in Workers : b[w] /\ a[w] = i

RackInv ==
    /\ activeJobId \in [Workers -> Ids \cup {NoJob}]
    /\ OnRack(state, busy, activeJobId)
    /\ OnRack(seen.state, seen.busy, seenJobs.activeJobId)
    /\ \A e \in executions : activeJobId[e.worker] = e.job
    /\ ~ticked => \A e \in executions : seenJobs.activeJobId[e.worker] = e.job

LEMMA InitRack == ConsoleInit => RackInv
<1> SUFFICES ASSUME ConsoleInit PROVE RackInv
    OBVIOUS
<1>1. /\ executions = {}
      /\ \A i \in Ids : state[i] # "running"
      /\ seen = Rendered
    BY DEF ConsoleInit, SimInit
<1>2. activeJobId \in [Workers -> Ids \cup {NoJob}]
    BY DEF ConsoleInit
<1>3. QED
    BY <1>1, <1>2 DEF RackInv, OnRack, Rendered

\* After a click or a render the page is seen as it is.
LEMMA ShownRack ==
    ASSUME seen' = Rendered',
           seenJobs' = RenderedJobs',
           activeJobId' \in [Workers -> Ids \cup {NoJob}],
           OnRack(state, busy, activeJobId)',
           \A e \in executions' : activeJobId'[e.worker] = e.job
    PROVE  RackInv'
    BY DEF RackInv, OnRack, Rendered, RenderedJobs

\* What a visitor does changes no worker and makes no job run.
LEMMA ClickRack ==
    ASSUME RackInv, SInv,
           \/ \E i \in Ids, h \in Hashes : FormAccepted(i, h)
           \/ FormThrottled
           \/ \E h \in Hashes : FormDuplicate(h)
           \/ ReplayDead
           \/ ClearConsole
           \/ StressLock
           \/ PlayPause
           \/ SwitchProducer
           \/ ConsoleRender
    PROVE  RackInv'
<1> USE DEF SInv, SimTypeOK
<1>1. /\ seen' = Rendered'
      /\ seenJobs' = RenderedJobs'
      /\ UNCHANGED <<busy, executions, activeJobId>>
      /\ \A i \in Ids : state'[i] = "running" => state[i] = "running"
    <2>1. CASE \E i \in Ids, h \in Hashes : FormAccepted(i, h)
        BY <2>1 DEF FormAccepted, FormSubmit, Click, ConsoleClick, display
    <2>2. CASE \/ FormThrottled
               \/ \E h \in Hashes : FormDuplicate(h)
               \/ PlayPause
               \/ SwitchProducer
               \/ ConsoleRender
        <3>1. /\ Render
              /\ UNCHANGED display
              /\ seenJobs' = RenderedJobs'
            BY <2>2 DEF FormThrottled, FormDuplicate, PlayPause, SwitchProducer,
                        ConsoleRender, ConsoleClick, RenderedJobs, display
        <3>2. QED
            BY <3>1 DEF Render, Rendered, page, display
    <2>3. CASE ReplayDead
        BY <2>3 DEF ReplayDead, DLQReplay, Click, ConsoleClick, display
    <2>4. CASE ClearConsole
        BY <2>4 DEF ClearConsole, ClearQueue, Click, ConsoleClick
    <2>5. CASE StressLock
        BY <2>5, <2>5 DEF StressLock, ToggleLock, Click, ConsoleClick, display
    <2>6. QED
        BY <2>1, <2>2, <2>3, <2>4, <2>5
<1>2. OnRack(state, busy, activeJobId)'
    BY <1>1 DEF RackInv, OnRack
<1>3. QED
    BY <1>1, <1>2, ShownRack DEF RackInv

LEMMA FinishRack ==
    ASSUME RackInv, SInv, NEW e \in executions, ConsoleFinish(e)
    PROVE  RackInv'
<1> USE DEF SInv, SimTypeOK
<1>1. /\ Finish(e)
      /\ activeJobId' = [activeJobId EXCEPT ![e.worker] = NoJob]
      /\ UNCHANGED seenJobs
    BY DEF ConsoleFinish
<1>2. /\ executions' = executions \ {e}
      /\ busy' = [busy EXCEPT ![e.worker] = FALSE]
      /\ UNCHANGED <<seen, ticked>>
    BY <1>1 DEF Finish
<1>3. e.job \in Ids /\ e.worker \in Workers
    OBVIOUS
<1>4. \A i \in Ids : state'[i] = "running" => state[i] = "running" /\ i # e.job
    BY <1>1, <1>3 DEF Finish, Succeed, FailOrRetry
<1>5. OnRack(state, busy, activeJobId)'
    <2> SUFFICES ASSUME NEW i \in Ids, state'[i] = "running"
                 PROVE  \E w \in Workers : busy'[w] /\ activeJobId'[w] = i
        BY DEF OnRack
    <2>1. PICK w \in Workers : busy[w] /\ activeJobId[w] = i
        BY <1>4 DEF RackInv, OnRack
    <2>2. w # e.worker
        BY <1>4, <2>1 DEF RackInv
    <2>3. busy'[w] = busy[w] /\ activeJobId'[w] = activeJobId[w]
        BY <1>1, <1>2, <2>2, Zenon DEF RackInv
    <2>4. QED
        BY <2>1, <2>3
<1>6. \A f \in executions' : activeJobId'[f.worker] = f.job
    <2>1. \A f \in executions' : f \in executions /\ f.worker # e.worker
        BY <1>2 DEF ExclusiveExecution
    <2>2. QED
        BY <1>1, <2>1 DEF RackInv
<1>7. QED
    BY <1>1, <1>2, <1>3, <1>5, <1>6 DEF RackInv, OnRack

LEMMA TickRack ==
    ASSUME RackInv, SInv, ConsoleTick
    PROVE  RackInv'
<1> USE DEF SInv, SimTypeOK
<1>1. PICK job \in Allocations :
          /\ state' = [i \in Ids |->
                          IF i \in Range(job) THEN "running" ELSE seen.state[i]]
          /\ busy' = [w \in Workers |-> \/ seen.backpressureLock
                                        \/ seen.busy[w]
                                        \/ w \in DOMAIN job]
          /\ executions' = executions
                \cup {[job |-> job[w], worker |-> w] : w \in DOMAIN job}
    BY DEF ConsoleTick, Tick
<1>2. ~ticked /\ ticked' /\ UNCHANGED seen /\ UNCHANGED seenJobs
    BY DEF ConsoleTick, Tick
<1>3. PICK shown \in [Workers -> Ids \cup {NoJob}] :
          /\ \A w \in Workers :
                LET given == {e \in executions' \ executions : e.worker = w} IN
                IF given = {} THEN shown[w] = SeenActiveJobId(w)
                              ELSE \E e \in given : shown[w] = e.job
          /\ activeJobId' = shown
    BY DEF ConsoleTick
<1>4. /\ DOMAIN job \subseteq {w \in Workers : ~seen.busy[w]}
      /\ \A w \in DOMAIN job : job[w] \in Ids /\ seen.state[job[w]] = "pending"
      /\ \A i \in Range(job) : \E w \in DOMAIN job : i = job[w]
    BY AllocationFacts
<1>5. \A e \in executions : /\ e.worker \in Workers
                            /\ seen.busy[e.worker]
                            /\ seen.state[e.job] \in {"running", "absent"}
                            /\ seenJobs.activeJobId[e.worker] = e.job
    BY <1>2 DEF ExecutionsSeen, RackInv
<1>6. \A w \in DOMAIN job : /\ w \in Workers
                            /\ activeJobId'[w] = job[w]
    <2> SUFFICES ASSUME NEW w \in DOMAIN job
                 PROVE  w \in Workers /\ shown[w] = job[w]
        BY <1>3
    <2>1. w \in Workers /\ ~seen.busy[w]
        BY <1>4
    <2>2. {e \in executions' \ executions : e.worker = w}
             = {[job |-> job[w], worker |-> w]}
        <3>1. [job |-> job[w], worker |-> w] \in executions' \ executions
            BY <1>1, <1>4, <1>5
        <3>2. \A e \in executions' \ executions :
                 e.worker = w => e = [job |-> job[w], worker |-> w]
            BY <1>1
        <3>3. QED
            BY <3>1, <3>2
    <2>3. {e \in executions' \ executions : e.worker = w} # {}
        BY <2>2
    <2>4. \E e \in {e \in executions' \ executions : e.worker = w} : shown[w] = e.job
        BY <1>3, <2>1, <2>3
    <2>5. QED
        BY <2>1, <2>2, <2>4
<1>7. \A w \in Workers : seen.busy[w] => activeJobId'[w] = seenJobs.activeJobId[w]
    <2> SUFFICES ASSUME NEW w \in Workers, seen.busy[w]
                 PROVE  shown[w] = seenJobs.activeJobId[w]
        BY <1>3
    <2>1. {e \in executions' \ executions : e.worker = w} = {}
        BY <1>1, <1>4
    <2>2. QED
        BY <1>3, <2>1 DEF SeenActiveJobId
<1>8. OnRack(state, busy, activeJobId)'
    <2> SUFFICES ASSUME NEW i \in Ids, state'[i] = "running"
                 PROVE  \E w \in Workers : busy'[w] /\ activeJobId'[w] = i
        BY DEF OnRack
    <2>1. CASE i \in Range(job)
        <3>1. PICK w \in DOMAIN job : i = job[w]
            BY <1>4, <2>1
        <3>2. w \in Workers /\ activeJobId'[w] = i
            BY <1>6, <3>1
        <3>3. busy'[w]
            BY <1>1, <3>2, Zenon
        <3>4. QED
            BY <3>2, <3>3
    <2>2. CASE i \notin Range(job)
        <3>1. PICK w \in Workers : seen.busy[w] /\ seenJobs.activeJobId[w] = i
            BY <1>1, <2>2 DEF RackInv, OnRack
        <3>2. activeJobId'[w] = i
            BY <1>7, <3>1
        <3>3. busy'[w]
            BY <1>1, <3>1, Zenon
        <3>4. QED
            BY <3>2, <3>3
    <2>3. QED
        BY <2>1, <2>2
<1>9. \A e \in executions' : activeJobId'[e.worker] = e.job
    BY <1>1, <1>5, <1>6, <1>7
<1>10. QED
    BY <1>2, <1>3, <1>8, <1>9 DEF RackInv, OnRack

LEMMA NextRack == RackInv /\ SInv /\ [ConsoleNext]_consoleVars => RackInv'
<1> SUFFICES ASSUME RackInv, SInv, [ConsoleNext]_consoleVars PROVE RackInv'
    OBVIOUS
<1>1. CASE UNCHANGED consoleVars
    BY <1>1 DEF consoleVars, vars, page, display, RackInv, OnRack
<1>2. CASE ConsoleNext
    BY <1>2, ClickRack, FinishRack, TickRack DEF ConsoleNext
<1>3. QED
    BY <1>1, <1>2

\* A job listed as running is the active job of a worker that is shown busy,
\* whatever ticks write back.
THEOREM RunningOnRack == ConsoleSpec => []RunningIsOnRack
<1>1. RackInv => RunningIsOnRack
    BY DEF RackInv, OnRack, RunningIsOnRack, ShownBusy
<1>2. QED
    BY <1>1, ConsoleSInv, InitRack, NextRack, PTL DEF ConsoleSpec

-----------------------------------------------------------------------------
(* Deduplication *)

\* Of a list of jobs: two queued jobs of one hash are not without a revived one.
DoublesIn(s) ==
    \A i, k \in Ids : /\ hash[i] = hash[k]
                      /\ s[i] \in Active
                      /\ s[k] \in Active
                      /\ i # k
                      => i \in revived \/ k \in revived

\* What is queued was seen to be.
QueuedSeen == \A i \in Ids : state[i] \in Active => seen.state[i] \in Active

DoublesInv == DoublesIn(state) /\ DoublesIn(seen.state) /\ QueuedSeen

LEMMA InitDoubles == ConsoleInit => DoublesInv
<1> SUFFICES ASSUME ConsoleInit PROVE DoublesInv
    OBVIOUS
<1>1. DoublesIn(state)
    BY SimulatorAssumption
    DEF ConsoleInit, SimInit, DoublesIn, Seeds, Active, IsInjective
<1>2. QED
    BY <1>1 DEF ConsoleInit, SimInit, Rendered, DoublesInv, QueuedSeen, DoublesIn

LEMMA ShownDoubles ==
    ASSUME seen' = Rendered', DoublesIn(state)'
    PROVE  DoublesInv'
    BY DEF Rendered, DoublesInv, QueuedSeen, DoublesIn

LEMMA NextDoubles ==
    ASSUME SInv, DoublesInv, ConsoleNext
    PROVE  DoublesInv'
<1> USE DEF DoublesInv, SInv, SimTypeOK
<1>1. ASSUME NEW i \in Ids, NEW h \in Hashes, FormAccepted(i, h)
      PROVE  DoublesInv'
    <2>1. /\ state' = [state EXCEPT ![i] = "pending"]
          /\ hash' = [hash EXCEPT ![i] = h]
          /\ UNCHANGED revived
          /\ seen' = Rendered'
        BY <1>1 DEF FormAccepted, FormSubmit, NewJob, Click
    <2>2. \A k \in Ids : hash[k] = h => state[k] \notin Active
        BY <1>1 DEF FormAccepted, FormSubmit, NewJob, IsDuplicate, QueuedSeen
    <2>3. DoublesIn(state)'
        BY <2>1, <2>2 DEF DoublesIn
    <2>4. QED
        BY <2>1, <2>3, ShownDoubles
<1>2. CASE \/ FormThrottled
           \/ \E h \in Hashes : FormDuplicate(h)
           \/ PlayPause
           \/ SwitchProducer
           \/ ConsoleRender
    <2>1. Render /\ UNCHANGED revived
        BY <1>2 DEF FormThrottled, FormDuplicate, PlayPause, SwitchProducer,
                    ConsoleRender
    <2>2. QED
        BY <2>1, ShownDoubles DEF Render, Rendered, page, history, DoublesIn
<1>3. CASE ReplayDead
    <2>1. /\ state' = [i \in Ids |-> IF state[i] = "dead" THEN "pending" ELSE state[i]]
          /\ revived' = revived \cup {i \in Ids : state[i] = "dead"}
          /\ UNCHANGED hash
          /\ seen' = Rendered'
        BY <1>3 DEF ReplayDead, DLQReplay, Click, history
    <2>2. DoublesIn(state)'
        BY <2>1 DEF DoublesIn, Active
    <2>3. QED
        BY <2>1, <2>2, ShownDoubles
<1>4. CASE ClearConsole
    BY <1>4, ShownDoubles DEF ClearConsole, ClearQueue, Click, DoublesIn, Active
<1>5. CASE StressLock
    BY <1>5, ShownDoubles DEF StressLock, ToggleLock, Click, history, DoublesIn
<1>6. CASE ConsoleTick
    <2>1. /\ \A i \in Ids : state'[i] \in Active => seen.state[i] \in Active
          /\ UNCHANGED seen
          /\ UNCHANGED revived
        BY <1>6, AllocationFacts DEF ConsoleTick, Tick, Active
    <2>2. \A i \in Ids : seen.state[i] \in Active => hash'[i] = hash[i]
        <3>1. ASSUME NEW j \in Ids, NEW h \in Hashes, NewJob(j, h)
              PROVE  \A i \in Ids : seen.state[i] \in Active => hash'[i] = hash[i]
            BY <3>1 DEF NewJob, CountsOK, Active
        <3>2. QED
            BY <1>6, <3>1 DEF ConsoleTick, Tick, AutoProduce
    <2>3. QED
        BY <2>1, <2>2 DEF DoublesIn, QueuedSeen
<1>7. ASSUME NEW e \in executions, ConsoleFinish(e)
      PROVE  DoublesInv'
    <2>1. /\ \A i \in Ids : state'[i] \in Active => state[i] \in Active
          /\ UNCHANGED <<seen, hash, revived>>
        BY <1>7 DEF ConsoleFinish, Finish, Succeed, FailOrRetry, Active,
                    ExclusiveExecution, history
    <2>2. QED
        BY <2>1 DEF DoublesIn, QueuedSeen
<1>8. QED
    BY <1>1, <1>2, <1>3, <1>4, <1>5, <1>6, <1>7 DEF ConsoleNext

\* The page queues a hash twice only through a replay, which revives a dead job
\* although another of its hash may be queued.
THEOREM DoublesRevived == ConsoleSpec => []DoublesAreRevived
<1>1. DoublesInv => DoublesAreRevived
    BY DEF DoublesInv, DoublesIn, DoublesAreRevived
<1>2. SInv /\ DoublesInv /\ UNCHANGED consoleVars => DoublesInv'
    BY DEF consoleVars, vars, page, history, DoublesInv, DoublesIn, QueuedSeen
<1>3. SInv /\ DoublesInv /\ [ConsoleNext]_consoleVars => DoublesInv'
    BY <1>2, NextDoubles
<1>4. QED
    BY <1>1, <1>3, ConsoleSInv, InitDoubles, PTL DEF ConsoleSpec

-----------------------------------------------------------------------------
(* Types *)

DisplayInv == RenderedJobs \in DisplayedJobs /\ seenJobs \in DisplayedJobs

LEMMA InitDisplay == ConsoleInit => DisplayInv
    BY DEF ConsoleInit, DisplayInv, DisplayedJobs, RenderedJobs

LEMMA NextDisplay ==
    ASSUME SInv, DisplayInv, [ConsoleNext]_consoleVars
    PROVE  DisplayInv'
<1> USE DEF SInv, SimTypeOK
<1>1. /\ isAnomaly \in [Ids -> BOOLEAN]
      /\ activeJobId \in [Workers -> Ids \cup {NoJob}]
      /\ seenJobs.isAnomaly \in [Ids -> BOOLEAN]
    BY DEF DisplayInv, DisplayedJobs, RenderedJobs
<1>2. /\ isAnomaly' \in [Ids -> BOOLEAN]
      /\ activeJobId' \in [Workers -> Ids \cup {NoJob}]
    <2>1. CASE UNCHANGED display
        BY <1>1, <2>1 DEF display
    <2>2. CASE ClearConsole
        BY <1>1, <2>2 DEF ClearConsole
    <2>3. CASE ConsoleTick
        BY <1>1, <2>3 DEF ConsoleTick
    <2>4. ASSUME NEW e \in executions, ConsoleFinish(e)
          PROVE  /\ isAnomaly' \in [Ids -> BOOLEAN]
                 /\ activeJobId' \in [Workers -> Ids \cup {NoJob}]
        BY <1>1, <2>4 DEF ConsoleFinish
    <2>5. QED
        BY <2>1, <2>2, <2>3, <2>4
        DEF ConsoleNext, consoleVars, FormAccepted, FormThrottled, FormDuplicate,
            ReplayDead, StressLock, PlayPause, SwitchProducer, ConsoleRender
<1>3. RenderedJobs' \in DisplayedJobs
    BY <1>2 DEF RenderedJobs, DisplayedJobs
<1>4. seenJobs' \in {seenJobs, RenderedJobs, RenderedJobs'}
    BY DEF ConsoleNext, consoleVars, FormAccepted, FormThrottled, FormDuplicate,
           ReplayDead, ClearConsole, StressLock, PlayPause, SwitchProducer,
           ConsoleTick, ConsoleFinish, ConsoleRender, ConsoleClick
<1>5. QED
    BY <1>3, <1>4 DEF DisplayInv

-----------------------------------------------------------------------------
(* The counters *)

DoneJobs(s) == {i \in Ids : s[i] = "done"}

DeadJobs(s) == {i \in Ids : s[i] = "dead"}

Flagged(s, a) == {i \in Ids : s[i] = "done" /\ a[i]}

\* Of a list of jobs: its finished jobs are counted.
CountedIn(s, a) ==
    /\ metrics.completedCount >= Cardinality(DoneJobs(s))
    /\ metrics.deadCount >= Cardinality(DeadJobs(s))
    /\ metrics.anomalyCount >= Cardinality(Flagged(s, a))

CountersInv ==
    /\ metrics \in QueueMetrics
    /\ CountedIn(state, isAnomaly)
    /\ CountedIn(seen.state, seenJobs.isAnomaly)

LEMMA CounterType ==
    ASSUME NEW m \in QueueMetrics
    PROVE  /\ m.totalEnqueued \in Nat
           /\ m.completedCount \in Nat
           /\ m.failedCount \in Nat
           /\ m.deadCount \in Nat
           /\ m.backlogCount \in Nat
           /\ m.anomalyCount \in Nat
    BY DEF QueueMetrics

LEMMA CounterSet ==
    ASSUME NEW m \in QueueMetrics, NEW n \in Nat
    PROVE  /\ [m EXCEPT !.totalEnqueued = n] \in QueueMetrics
           /\ [m EXCEPT !.completedCount = n] \in QueueMetrics
           /\ [m EXCEPT !.failedCount = n] \in QueueMetrics
           /\ [m EXCEPT !.deadCount = n] \in QueueMetrics
           /\ [m EXCEPT !.backlogCount = n] \in QueueMetrics
           /\ [m EXCEPT !.anomalyCount = n] \in QueueMetrics
    BY DEF QueueMetrics

LEMMA CountersProduced ==
    ASSUME metrics \in QueueMetrics, UNCHANGED metrics \/ CountEnqueued
    PROVE  /\ metrics' \in QueueMetrics
           /\ metrics'.completedCount >= metrics.completedCount
           /\ metrics'.deadCount >= metrics.deadCount
           /\ metrics'.anomalyCount >= metrics.anomalyCount
<1>1. CASE UNCHANGED metrics
    BY <1>1, CounterType
<1>2. CASE CountEnqueued
    <2>1. metrics.totalEnqueued + 1 \in Nat /\ metrics.backlogCount + 1 \in Nat
        BY CounterType
    <2>2. metrics' \in QueueMetrics
        BY <1>2, <2>1, CounterSet, Zenon DEF CountEnqueued
    <2>3. /\ metrics'.completedCount = metrics.completedCount
          /\ metrics'.deadCount = metrics.deadCount
          /\ metrics'.anomalyCount = metrics.anomalyCount
        BY <1>2 DEF CountEnqueued, QueueMetrics
    <2>4. QED
        BY <2>2, <2>3, CounterType
<1>3. QED
    BY <1>1, <1>2

LEMMA CountersCounted ==
    ASSUME metrics \in QueueMetrics, NEW s, NEW anomaly \in BOOLEAN, NEW n \in {1, 2},
           metrics' = Counted(s, anomaly, n)
    PROVE  /\ metrics' \in QueueMetrics
           /\ metrics'.deadCount = metrics.deadCount + IF s = "dead" THEN n ELSE 0
           /\ metrics'.completedCount
                 = metrics.completedCount + IF s = "done" THEN n ELSE 0
           /\ metrics'.anomalyCount
                 = metrics.anomalyCount + IF s = "done" /\ anomaly THEN n ELSE 0
<1> DEFINE f == metrics.failedCount + IF s = "pending" THEN n ELSE 0
           d == metrics.deadCount + IF s = "dead" THEN n ELSE 0
           c == metrics.completedCount + IF s = "done" THEN n ELSE 0
           a == metrics.anomalyCount + IF s = "done" /\ anomaly THEN n ELSE 0
<1>1. f \in Nat /\ d \in Nat /\ c \in Nat /\ a \in Nat
    BY CounterType
<1>2. metrics' = [metrics EXCEPT !.failedCount = f, !.deadCount = d,
                                 !.completedCount = c, !.anomalyCount = a]
    BY Zenon DEF Counted
<1> HIDE DEF f, d, c, a
<1>3. metrics' \in QueueMetrics
    <2> DEFINE m == [metrics EXCEPT !.failedCount = f, !.deadCount = d]
    <2>1. m \in QueueMetrics
        BY <1>1, CounterSet, Zenon
    <2>2. metrics' = [m EXCEPT !.completedCount = c, !.anomalyCount = a]
        BY <1>2, Zenon
    <2> HIDE DEF m
    <2>3. [m EXCEPT !.completedCount = c, !.anomalyCount = a] \in QueueMetrics
        BY <1>1, <2>1, CounterSet, Zenon
    <2>4. QED
        BY <2>2, <2>3, Zenon
<1>4. metrics'.deadCount = d /\ metrics'.completedCount = c /\ metrics'.anomalyCount = a
    BY <1>2 DEF QueueMetrics
<1>5. QED
    BY <1>3, <1>4 DEF d, c, a

LEMMA SubsetOfIds ==
    ASSUME NEW S \in SUBSET Ids, NEW R \in SUBSET Ids, S \subseteq R
    PROVE  /\ Cardinality(S) \in Nat
           /\ Cardinality(R) \in Nat
           /\ Cardinality(S) <= Cardinality(R)
<1>1. IsFiniteSet(R)
    BY ConsoleAssumption, FS_Subset
<1>2. QED
    BY <1>1, FS_Subset, FS_CardinalityType

LEMMA OneMoreJob ==
    ASSUME NEW S \in SUBSET Ids, NEW R \in SUBSET Ids, NEW i \in Ids,
           S \subseteq R \cup {i}
    PROVE  /\ Cardinality(S) \in Nat
           /\ Cardinality(R) \in Nat
           /\ Cardinality(S) <= Cardinality(R) + 1
<1>1. IsFiniteSet(R)
    BY ConsoleAssumption, FS_Subset
<1>2. /\ Cardinality(R) \in Nat
      /\ Cardinality(R \cup {i}) \in Nat
      /\ Cardinality(R \cup {i}) <= Cardinality(R) + 1
    <2>1. IsFiniteSet(R \cup {i})
        BY <1>1, FS_AddElement
    <2>2. Cardinality(R) \in Nat /\ Cardinality(R \cup {i}) \in Nat
        BY <1>1, <2>1, FS_CardinalityType
    <2>3. Cardinality(R \cup {i})
             = IF i \in R THEN Cardinality(R) ELSE Cardinality(R) + 1
        BY <1>1, FS_AddElement
    <2>4. QED
        BY <2>2, <2>3
<1>3. Cardinality(S) \in Nat /\ Cardinality(S) <= Cardinality(R \cup {i})
    BY SubsetOfIds
<1>4. QED
    BY <1>2, <1>3

\* No counter of m is below the page's counter.
NoneLower(m) ==
    /\ m.completedCount >= metrics.completedCount
    /\ m.deadCount >= metrics.deadCount
    /\ m.anomalyCount >= metrics.anomalyCount

\* Every job finished in t was finished in s, its anomaly flag no lower there.
NoneFinished(s, a, t, b) ==
    \A i \in Ids : /\ t[i] = "done" => s[i] = "done" /\ (b[i] => a[i])
                   /\ t[i] = "dead" => s[i] = "dead"

Covers(m, s, a) ==
    /\ m.completedCount >= Cardinality(DoneJobs(s))
    /\ m.deadCount >= Cardinality(DeadJobs(s))
    /\ m.anomalyCount >= Cardinality(Flagged(s, a))

\* A list with no other finished jobs, and no smaller counters.
LEMMA FewerFinished ==
    ASSUME NEW s, NEW a, NEW m \in QueueMetrics,
           CountedIn(s, a), metrics \in QueueMetrics,
           NEW t, NEW b,
           NoneLower(m), NoneFinished(s, a, t, b)
    PROVE  Covers(m, t, b)
<1> USE DEF NoneLower
<1>1. /\ DoneJobs(t) \subseteq DoneJobs(s)
      /\ DeadJobs(t) \subseteq DeadJobs(s)
      /\ Flagged(t, b) \subseteq Flagged(s, a)
    BY DEF DoneJobs, DeadJobs, Flagged, NoneFinished
<1>2. /\ DoneJobs(s) \in SUBSET Ids
      /\ DeadJobs(s) \in SUBSET Ids
      /\ Flagged(s, a) \in SUBSET Ids
      /\ DoneJobs(t) \in SUBSET Ids
      /\ DeadJobs(t) \in SUBSET Ids
      /\ Flagged(t, b) \in SUBSET Ids
    BY DEF DoneJobs, DeadJobs, Flagged
<1>3. /\ Cardinality(DoneJobs(t)) \in Nat
      /\ Cardinality(DoneJobs(s)) \in Nat
      /\ Cardinality(DoneJobs(t)) <= Cardinality(DoneJobs(s))
    BY <1>1, <1>2, SubsetOfIds
<1>4. /\ Cardinality(DeadJobs(t)) \in Nat
      /\ Cardinality(DeadJobs(s)) \in Nat
      /\ Cardinality(DeadJobs(t)) <= Cardinality(DeadJobs(s))
    BY <1>1, <1>2, SubsetOfIds
<1>5. /\ Cardinality(Flagged(t, b)) \in Nat
      /\ Cardinality(Flagged(s, a)) \in Nat
      /\ Cardinality(Flagged(t, b)) <= Cardinality(Flagged(s, a))
    BY <1>1, <1>2, SubsetOfIds
<1>6. /\ metrics.completedCount \in Nat /\ m.completedCount \in Nat
      /\ metrics.deadCount \in Nat /\ m.deadCount \in Nat
      /\ metrics.anomalyCount \in Nat /\ m.anomalyCount \in Nat
    BY CounterType
<1>7. /\ metrics.completedCount >= Cardinality(DoneJobs(s))
      /\ metrics.deadCount >= Cardinality(DeadJobs(s))
      /\ metrics.anomalyCount >= Cardinality(Flagged(s, a))
    BY DEF CountedIn
<1>8. m.completedCount >= Cardinality(DoneJobs(t))
    BY <1>3, <1>6, <1>7
<1>9. m.deadCount >= Cardinality(DeadJobs(t))
    BY <1>4, <1>6, <1>7
<1>10. m.anomalyCount >= Cardinality(Flagged(t, b))
    BY <1>5, <1>6, <1>7
<1>11. QED
    BY <1>8, <1>9, <1>10 DEF Covers

LEMMA InitCounters == ConsoleInit => CountersInv
<1> SUFFICES ASSUME ConsoleInit PROVE CountersInv
    OBVIOUS
<1>1. Cardinality(Seeds) \in Nat
    BY SimulatorAssumption, ConsoleAssumption, FS_Subset, FS_CardinalityType DEF Seeds
<1>2. /\ metrics \in QueueMetrics
      /\ metrics.completedCount = 0
      /\ metrics.deadCount = 0
      /\ metrics.anomalyCount = 0
    BY <1>1 DEF ConsoleInit, QueueMetrics
<1>3. /\ DoneJobs(state) = {}
      /\ DeadJobs(state) = {}
      /\ Flagged(state, isAnomaly) = {}
    BY DEF ConsoleInit, SimInit, DoneJobs, DeadJobs, Flagged
<1>4. CountedIn(state, isAnomaly)
    BY <1>2, <1>3, FS_EmptySet DEF CountedIn
<1>5. /\ seen.state = state
      /\ seenJobs.isAnomaly = isAnomaly
    BY DEF ConsoleInit, SimInit, Rendered, RenderedJobs
<1>6. QED
    BY <1>2, <1>4, <1>5 DEF CountersInv

LEMMA ShownCounters ==
    ASSUME seen' = Rendered', seenJobs' = RenderedJobs',
           metrics' \in QueueMetrics, CountedIn(state, isAnomaly)'
    PROVE  CountersInv'
<1>1. seen'.state = state' /\ seenJobs'.isAnomaly = isAnomaly'
    BY DEF Rendered, RenderedJobs
<1>2. CountedIn(seen.state, seenJobs.isAnomaly)'
    BY <1>1 DEF CountedIn
<1>3. QED
    BY <1>2 DEF CountersInv

\* Clicks that finish no job and lower no counter.
LEMMA QuietCounters ==
    ASSUME SInv, CountersInv, seen' = Rendered', seenJobs' = RenderedJobs',
           metrics' \in QueueMetrics,
           metrics'.completedCount >= metrics.completedCount,
           metrics'.deadCount >= metrics.deadCount,
           metrics'.anomalyCount >= metrics.anomalyCount,
           UNCHANGED isAnomaly,
           \A i \in Ids : state'[i] \in {"done", "dead"} => state'[i] = state[i]
    PROVE  CountersInv'
<1>1. NoneFinished(state, isAnomaly, state', isAnomaly') /\ NoneLower(metrics')
    BY DEF NoneFinished, NoneLower
<1>2. CountedIn(state, isAnomaly) /\ metrics \in QueueMetrics
    BY DEF CountersInv
<1>3. CountedIn(state, isAnomaly)'
    <2>1. Covers(metrics', state', isAnomaly')
        BY <1>1, <1>2, FewerFinished
    <2>2. QED
        BY <2>1 DEF Covers, CountedIn
<1>4. QED
    BY <1>3, ShownCounters

LEMMA ClickCounters ==
    ASSUME SInv, CountersInv,
           \/ \E i \in Ids, h \in Hashes : FormAccepted(i, h)
           \/ FormThrottled
           \/ \E h \in Hashes : FormDuplicate(h)
           \/ StressLock
           \/ PlayPause
           \/ SwitchProducer
           \/ ConsoleRender
    PROVE  CountersInv'
<1> USE DEF SInv, SimTypeOK
<1>1. metrics \in QueueMetrics
    BY DEF CountersInv
<1>2. CASE \E i \in Ids, h \in Hashes : FormAccepted(i, h)
    <2>1. PICK i \in Ids, h \in Hashes : FormAccepted(i, h)
        BY <1>2
    <2>2. /\ seen' = Rendered'
          /\ seenJobs' = RenderedJobs'
          /\ UNCHANGED isAnomaly
          /\ state' = [state EXCEPT ![i] = "pending"]
          /\ CountEnqueued
        BY <2>1 DEF FormAccepted, FormSubmit, Click, ConsoleClick, display
    <2>3. \A k \in Ids : state'[k] \in {"done", "dead"} => state'[k] = state[k]
        BY <2>2
    <2>4. QED
        BY <1>1, <2>2, <2>3, CountersProduced, QuietCounters
<1>3. CASE \/ FormThrottled
           \/ \E h \in Hashes : FormDuplicate(h)
           \/ StressLock
           \/ PlayPause
           \/ SwitchProducer
           \/ ConsoleRender
    <2>1. /\ seenJobs' = RenderedJobs'
          /\ UNCHANGED isAnomaly
          /\ UNCHANGED metrics
        BY <1>3 DEF FormThrottled, FormDuplicate, StressLock, PlayPause, SwitchProducer,
                    ConsoleRender, ConsoleClick, RenderedJobs, display
    <2>2. Render \/ ToggleLock
        BY <1>3 DEF FormThrottled, FormDuplicate, StressLock, PlayPause, SwitchProducer,
                    ConsoleRender
    <2>3. seen' = Rendered' /\ UNCHANGED state
        BY <2>2 DEF Render, ToggleLock, Click, Rendered, page
    <2>4. QED
        BY <1>1, <2>1, <2>3, CountersProduced, QuietCounters
<1>4. QED
    BY <1>2, <1>3

LEMMA ReplayCounters ==
    ASSUME SInv, CountersInv, ReplayDead
    PROVE  CountersInv'
<1> USE DEF SInv, SimTypeOK
<1> DEFINE n == QueueStats(seen.state)["dead"]
           d == Difference(metrics.deadCount, n)
<1>1. metrics \in QueueMetrics /\ CountedIn(state, isAnomaly)
    BY DEF CountersInv
<1>2. n \in Nat
    <2>1. n = Cardinality({i \in Ids : seen.state[i] = "dead"})
        BY DEF QueueStats
    <2>2. {i \in Ids : seen.state[i] = "dead"} \in SUBSET Ids
        OBVIOUS
    <2>3. QED
        BY <2>1, <2>2, SubsetOfIds
<1>3. metrics' = [metrics EXCEPT !.deadCount = d,
                                 !.backlogCount = metrics.backlogCount + n]
    BY Zenon DEF ReplayDead
<1>4. d \in Nat /\ metrics.backlogCount + n \in Nat
    BY <1>1, <1>2, CounterType DEF Difference
<1> HIDE DEF n, d
<1>5. metrics' \in QueueMetrics
    BY <1>1, <1>3, <1>4, CounterSet, Zenon
<1>6. /\ metrics'.completedCount = metrics.completedCount
      /\ metrics'.anomalyCount = metrics.anomalyCount
    BY <1>1, <1>3 DEF QueueMetrics
<1>7. /\ seen' = Rendered'
      /\ seenJobs' = RenderedJobs'
      /\ UNCHANGED isAnomaly
      /\ state' = [i \in Ids |-> IF state[i] = "dead" THEN "pending" ELSE state[i]]
    BY DEF ReplayDead, DLQReplay, Click, ConsoleClick, display
<1>8. /\ DoneJobs(state') = DoneJobs(state)
      /\ Flagged(state', isAnomaly') = Flagged(state, isAnomaly)
      /\ DeadJobs(state') = {}
    BY <1>7 DEF DoneJobs, Flagged, DeadJobs
<1>9. CountedIn(state, isAnomaly)'
    <2>1. metrics'.deadCount >= 0
        BY <1>5, CounterType
    <2>2. QED
        BY <1>1, <1>6, <1>8, <2>1, FS_EmptySet DEF CountedIn
<1>10. QED
    BY <1>5, <1>7, <1>9, ShownCounters

LEMMA ClearCounters ==
    ASSUME SInv, CountersInv, ClearConsole
    PROVE  CountersInv'
<1>1. metrics \in QueueMetrics
    BY DEF CountersInv
<1>2. metrics' = [metrics EXCEPT !.completedCount = 0, !.failedCount = 0,
                                 !.deadCount = 0, !.backlogCount = 0,
                                 !.anomalyCount = 0]
    BY DEF ClearConsole
<1>3. metrics' \in QueueMetrics
    <2>1. 0 \in Nat
        OBVIOUS
    <2>2. QED
        BY <1>1, <1>2, <2>1, CounterSet, Zenon
<1>4. /\ seen' = Rendered'
      /\ seenJobs' = RenderedJobs'
      /\ state' = [i \in Ids |-> "absent"]
    BY DEF ClearConsole, ClearQueue, Click, ConsoleClick
<1>5. /\ DoneJobs(state') = {}
      /\ DeadJobs(state') = {}
      /\ Flagged(state', isAnomaly') = {}
    BY <1>4 DEF DoneJobs, DeadJobs, Flagged
<1>6. CountedIn(state, isAnomaly)'
    BY <1>3, <1>5, FS_EmptySet, CounterType DEF CountedIn
<1>7. QED
    BY <1>3, <1>4, <1>6, ShownCounters

LEMMA TickCounters ==
    ASSUME SInv, CountersInv, ConsoleTick
    PROVE  CountersInv'
<1>1. /\ metrics \in QueueMetrics
      /\ CountedIn(seen.state, seenJobs.isAnomaly)
    BY DEF CountersInv
<1>2. /\ metrics' \in QueueMetrics
      /\ metrics'.completedCount >= metrics.completedCount
      /\ metrics'.deadCount >= metrics.deadCount
      /\ metrics'.anomalyCount >= metrics.anomalyCount
    BY <1>1, CountersProduced DEF ConsoleTick, Produce
<1>3. /\ isAnomaly' = seenJobs.isAnomaly
      /\ UNCHANGED <<seen, seenJobs>>
      /\ \A i \in Ids : state'[i] \in {"running", seen.state[i]}
    BY DEF ConsoleTick, Tick
<1>4. /\ NoneFinished(seen.state, seenJobs.isAnomaly, state', isAnomaly')
      /\ NoneFinished(seen.state, seenJobs.isAnomaly, seen'.state, seenJobs'.isAnomaly)
      /\ NoneLower(metrics')
    BY <1>2, <1>3 DEF NoneFinished, NoneLower
<1>5. CountedIn(state, isAnomaly)'
    <2>1. Covers(metrics', state', isAnomaly')
        BY <1>1, <1>2, <1>4, FewerFinished
    <2>2. QED
        BY <2>1 DEF Covers, CountedIn
<1>6. CountedIn(seen.state, seenJobs.isAnomaly)'
    <2>1. Covers(metrics', seen'.state, seenJobs'.isAnomaly)
        BY <1>1, <1>2, <1>4, FewerFinished
    <2>2. QED
        BY <2>1 DEF Covers, CountedIn
<1>7. QED
    BY <1>2, <1>5, <1>6 DEF CountersInv

LEMMA FinishCounters ==
    ASSUME SInv, DisplayInv, CountersInv, NEW e \in executions, ConsoleFinish(e)
    PROVE  CountersInv'
<1> USE DEF SInv, SimTypeOK
<1>1. /\ metrics \in QueueMetrics
      /\ CountedIn(state, isAnomaly)
      /\ CountedIn(seen.state, seenJobs.isAnomaly)
    BY DEF CountersInv
<1>2. PICK anomaly \in BOOLEAN, n \in {1, 2} :
          /\ metrics' = Counted(state'[e.job], anomaly, n)
          /\ isAnomaly' = IF state'[e.job] = "done"
                          THEN [isAnomaly EXCEPT ![e.job] = anomaly]
                          ELSE isAnomaly
    BY DEF ConsoleFinish, UpdaterCalls
<1>3. e.job \in Ids
    OBVIOUS
<1>4. /\ metrics' \in QueueMetrics
      /\ metrics'.deadCount = metrics.deadCount + IF state'[e.job] = "dead" THEN n ELSE 0
      /\ metrics'.completedCount
            = metrics.completedCount + IF state'[e.job] = "done" THEN n ELSE 0
      /\ metrics'.anomalyCount
            = metrics.anomalyCount + IF state'[e.job] = "done" /\ anomaly THEN n ELSE 0
    BY <1>1, <1>2, CountersCounted
<1>5. /\ metrics.completedCount \in Nat /\ metrics'.completedCount \in Nat
      /\ metrics.deadCount \in Nat /\ metrics'.deadCount \in Nat
      /\ metrics.anomalyCount \in Nat /\ metrics'.anomalyCount \in Nat
    BY <1>1, <1>4, CounterType
<1>6. /\ UNCHANGED <<seen, seenJobs>>
      /\ \A i \in Ids : i # e.job => state'[i] = state[i]
    BY DEF ConsoleFinish, Finish, Succeed, FailOrRetry
<1>7. CountedIn(seen.state, seenJobs.isAnomaly)'
    <2>1. NoneLower(metrics')
        BY <1>4, <1>5 DEF NoneLower
    <2>2. NoneFinished(seen.state, seenJobs.isAnomaly, seen'.state, seenJobs'.isAnomaly)
        BY <1>6 DEF NoneFinished
    <2>3. Covers(metrics', seen'.state, seenJobs'.isAnomaly)
        BY <1>1, <1>4, <2>1, <2>2, FewerFinished
    <2>4. QED
        BY <2>3 DEF Covers, CountedIn
<1>8. metrics'.completedCount >= Cardinality(DoneJobs(state'))
    <2>1. /\ DoneJobs(state) \in SUBSET Ids
          /\ DoneJobs(state') \in SUBSET Ids
          /\ DoneJobs(state') \subseteq DoneJobs(state) \cup {e.job}
          /\ state'[e.job] # "done" => DoneJobs(state') \subseteq DoneJobs(state)
        BY <1>3, <1>6 DEF DoneJobs
    <2>2. /\ Cardinality(DoneJobs(state)) \in Nat
          /\ Cardinality(DoneJobs(state')) \in Nat
          /\ Cardinality(DoneJobs(state')) <= Cardinality(DoneJobs(state)) + 1
        BY <1>3, <2>1, OneMoreJob
    <2>3. state'[e.job] # "done"
             => Cardinality(DoneJobs(state')) <= Cardinality(DoneJobs(state))
        BY <2>1, SubsetOfIds
    <2>4. metrics.completedCount >= Cardinality(DoneJobs(state))
        BY <1>1 DEF CountedIn
    <2>5. QED
        BY <1>4, <1>5, <2>2, <2>3, <2>4
<1>9. metrics'.deadCount >= Cardinality(DeadJobs(state'))
    <2>1. /\ DeadJobs(state) \in SUBSET Ids
          /\ DeadJobs(state') \in SUBSET Ids
          /\ DeadJobs(state') \subseteq DeadJobs(state) \cup {e.job}
          /\ state'[e.job] # "dead" => DeadJobs(state') \subseteq DeadJobs(state)
        BY <1>3, <1>6 DEF DeadJobs
    <2>2. /\ Cardinality(DeadJobs(state)) \in Nat
          /\ Cardinality(DeadJobs(state')) \in Nat
          /\ Cardinality(DeadJobs(state')) <= Cardinality(DeadJobs(state)) + 1
        BY <1>3, <2>1, OneMoreJob
    <2>3. state'[e.job] # "dead"
             => Cardinality(DeadJobs(state')) <= Cardinality(DeadJobs(state))
        BY <2>1, SubsetOfIds
    <2>4. metrics.deadCount >= Cardinality(DeadJobs(state))
        BY <1>1 DEF CountedIn
    <2>5. QED
        BY <1>4, <1>5, <2>2, <2>3, <2>4
<1>10. metrics'.anomalyCount >= Cardinality(Flagged(state', isAnomaly'))
    <2>1. /\ Flagged(state, isAnomaly) \in SUBSET Ids
          /\ Flagged(state', isAnomaly') \in SUBSET Ids
        BY DEF Flagged
    <2>2. \A i \in Ids : i # e.job => isAnomaly'[i] = isAnomaly[i]
        BY <1>2
    <2>3. /\ Flagged(state', isAnomaly') \subseteq Flagged(state, isAnomaly) \cup {e.job}
          /\ ~(state'[e.job] = "done" /\ isAnomaly'[e.job])
                => Flagged(state', isAnomaly') \subseteq Flagged(state, isAnomaly)
        BY <1>3, <1>6, <2>2 DEF Flagged
    <2>4. /\ Cardinality(Flagged(state, isAnomaly)) \in Nat
          /\ Cardinality(Flagged(state', isAnomaly')) \in Nat
          /\ Cardinality(Flagged(state', isAnomaly'))
                <= Cardinality(Flagged(state, isAnomaly)) + 1
        BY <1>3, <2>1, <2>3, OneMoreJob
    <2>5. metrics.anomalyCount >= Cardinality(Flagged(state, isAnomaly))
        BY <1>1 DEF CountedIn
    <2>6. CASE state'[e.job] = "done" /\ anomaly
        BY <1>4, <1>5, <2>4, <2>5, <2>6
    <2>7. CASE ~(state'[e.job] = "done" /\ anomaly)
        <3>1. ~(state'[e.job] = "done" /\ isAnomaly'[e.job])
            <4>1. isAnomaly \in [Ids -> BOOLEAN]
                BY DEF DisplayInv, DisplayedJobs, RenderedJobs
            <4>2. CASE state'[e.job] # "done"
                BY <4>2
            <4>3. CASE state'[e.job] = "done" /\ anomaly = FALSE
                BY <1>2, <1>3, <4>1, <4>3
            <4>4. QED
                BY <2>7, <4>2, <4>3
        <3>2. Cardinality(Flagged(state', isAnomaly'))
                <= Cardinality(Flagged(state, isAnomaly))
            BY <2>1, <2>3, <3>1, SubsetOfIds
        <3>3. QED
            BY <1>4, <1>5, <2>4, <2>5, <2>7, <3>2
    <2>8. QED
        BY <2>6, <2>7
<1>11. QED
    BY <1>4, <1>7, <1>8, <1>9, <1>10 DEF CountersInv, CountedIn

LEMMA NextCounters ==
    ASSUME SInv, DisplayInv, CountersInv, [ConsoleNext]_consoleVars
    PROVE  CountersInv'
<1>1. CASE UNCHANGED consoleVars
    BY <1>1 DEF consoleVars, vars, page, display, CountersInv, CountedIn
<1>2. CASE ConsoleNext
    BY <1>2, ClickCounters, ReplayCounters, ClearCounters, TickCounters, FinishCounters
    DEF ConsoleNext
<1>3. QED
    BY <1>1, <1>2

LEMMA CountersInvariance == ConsoleSpec => [](DisplayInv /\ CountersInv)
<1>1. SInv /\ DisplayInv /\ CountersInv /\ [ConsoleNext]_consoleVars
         => (DisplayInv /\ CountersInv)'
    BY NextDisplay, NextCounters
<1>2. QED
    BY <1>1, ConsoleSInv, InitDisplay, InitCounters, PTL DEF ConsoleSpec

\* No finished, dead or flagged job of the list is missing from the counters,
\* whatever a replay subtracts and ticks restore.
THEOREM FinishedAreCounted == ConsoleSpec => []NothingUncounted
<1>1. CountersInv => NothingUncounted
    <2> SUFFICES ASSUME CountersInv PROVE NothingUncounted
        OBVIOUS
    <2>1. /\ QueueStats(state)["done"] = Cardinality(DoneJobs(state))
          /\ QueueStats(state)["dead"] = Cardinality(DeadJobs(state))
        BY DEF QueueStats, DoneJobs, DeadJobs
    <2>2. FlaggedRows = Flagged(state, isAnomaly)
        BY DEF FlaggedRows, HistoryRows, Flagged
    <2>3. QED
        BY <2>1, <2>2 DEF CountersInv, CountedIn, NothingUncounted
<1>2. QED
    BY <1>1, CountersInvariance, PTL

\* Every variable of the display keeps its type, and the log stays short.
THEOREM ConsoleTypeCorrectness == ConsoleSpec => []ConsoleTypeOK
<1> DEFINE Rest == /\ isPlaying \in BOOLEAN
                   /\ autoProducer \in BOOLEAN
                   /\ backpressureActive \in BOOLEAN
                   /\ throttledAttempts \in 0 .. Kept + 1
                   /\ revived \subseteq Ids
<1>1. ConsoleInit => Rest
    <2>1. 0 \in 0 .. Kept + 1
        BY ConsoleAssumption
    <2>2. TRUE \in BOOLEAN /\ FALSE \in BOOLEAN /\ {} \subseteq Ids
        OBVIOUS
    <2>3. QED
        BY <2>1, <2>2, Zenon DEF ConsoleInit
<1>2. Rest /\ [ConsoleNext]_consoleVars => Rest'
    <2> SUFFICES ASSUME Rest, [ConsoleNext]_consoleVars PROVE Rest'
        OBVIOUS
    <2>1. isPlaying' \in BOOLEAN /\ autoProducer' \in BOOLEAN
        <3>1. CASE UNCHANGED switches
            BY <3>1 DEF switches
        <3>2. CASE PlayPause \/ SwitchProducer
            BY <3>2, Zenon DEF PlayPause, SwitchProducer
        <3>3. QED
            BY <3>1, <3>2
            DEF ConsoleNext, consoleVars, FormAccepted, FormThrottled, FormDuplicate,
                ReplayDead, ClearConsole, StressLock, ConsoleTick, ConsoleFinish,
                ConsoleRender
    <2>2. throttledAttempts' \in 0 .. Kept + 1
        <3>1. LogThrottled => throttledAttempts' \in 0 .. Kept + 1
            BY ConsoleAssumption DEF LogThrottled
        <3>2. throttledAttempts' \in {0, throttledAttempts} \/ LogThrottled
            BY DEF ConsoleNext, consoleVars, FormAccepted, FormThrottled, FormDuplicate,
                   ReplayDead, ClearConsole, StressLock, PlayPause, SwitchProducer,
                   ConsoleTick, Produce, ConsoleFinish, ConsoleRender, alerts
        <3>3. QED
            BY <3>1, <3>2, ConsoleAssumption
    <2>3. revived' \subseteq Ids
        BY DEF ConsoleNext, consoleVars, FormAccepted, FormThrottled, FormDuplicate,
               ReplayDead, ClearConsole, StressLock, PlayPause, SwitchProducer,
               ConsoleTick, ConsoleFinish, ConsoleRender
    <2>4. backpressureActive' \in BOOLEAN
        <3>1. backpressureActive' \in {TRUE, FALSE, backpressureActive}
                \/ backpressureActive' = Saturated
            BY DEF ConsoleNext, consoleVars, FormAccepted, FormThrottled, FormDuplicate,
                   ReplayDead, ClearConsole, StressLock, PlayPause, SwitchProducer,
                   ConsoleTick, ConsoleFinish, ConsoleRender, alerts
        <3>2. Saturated \in BOOLEAN
            BY Zenon DEF Saturated
        <3>3. QED
            BY <3>1, <3>2
    <2>5. QED
        BY <2>1, <2>2, <2>3, <2>4
<1>3. DisplayInv /\ CountersInv /\ Rest => ConsoleTypeOK
    BY DEF DisplayInv, CountersInv, ConsoleTypeOK
<1>4. QED
    BY <1>1, <1>2, <1>3, CountersInvariance, PTL DEF ConsoleSpec

=============================================================================
