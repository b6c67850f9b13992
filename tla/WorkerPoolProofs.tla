-------------------------- MODULE WorkerPoolProofs --------------------------
(***************************************************************************)
(* Type correctness of the broker process and the exclusiveness of its     *)
(* reservations, for any sets of workers, ids and requests and any bounds. *)
(*                                                                         *)
(* The two go together.  Complete and Fail read the row their caller names *)
(* and check nothing, so the row is well-typed only because the caller     *)
(* holds it; and reservations stay exclusive only because a process that   *)
(* is down has no worker left that still believes it holds a job.          *)
(*                                                                         *)
(* On this invariant rest the lifecycle of the rows, deduplication, the    *)
(* scores at a reservation and the order of like jobs, the reservations    *)
(* that a failure leaves behind, and the moving averages.                  *)
(***************************************************************************)
EXTENDS WorkerPool, FoldProofs

-----------------------------------------------------------------------------
(* Every operation of the engine preserves the types of its tables *)

\* What a request carries.
LEMMA RequestTypes ==
    ASSUME NEW q \in Requests
    PROVE  /\ q.payload \in Payloads
           /\ q.context \in Contexts
           /\ q.base \in BasePriorities
           /\ q.maxRetries \in Int
    BY EngineAssumption

\* The score of a row is an integer number of hundredths of a point.
LEMMA CurrentScoreType ==
    ASSUME EngineTypeOK, NEW i \in Rows
    PROVE  CurrentScore(i) \in Int
<1>1. req[i] \in Requests /\ Clock - 10 * createdAt[i] \in Int
    BY EngineAssumption DEF EngineTypeOK, Rows, Clock
<1>2. req[i].base \in Int /\ IsRuleList(rules)
    BY <1>1, RequestTypes, EngineAssumption DEF EngineTypeOK
<1>3. QED
    BY <1>1, <1>2, ScoreIsNumber DEF CurrentScore, ScoreAt

LEMMA PredictedTimeType ==
    ASSUME EngineTypeOK, NEW c \in Contexts
    PROVE  PredictedTime(c) \in Prediction
<1>1. [sum |-> 3, count |-> 1] \in Prediction
    BY DEF Prediction
<1>2. QED
    BY <1>1 DEF EngineTypeOK, PredictedTime

LEMMA EngineInitType == EngineInit => EngineTypeOK
<1>1. NoMetric \in Prediction
    BY DEF NoMetric, Prediction
<1>2. QED
    BY <1>1, EngineAssumption DEF EngineInit, EngineTypeOK, Rows, JobState

LEMMA EnqueueType ==
    ASSUME EngineTypeOK, NEW i \in Ids, NEW q \in Requests, Enqueue(i, q)
    PROVE  EngineTypeOK'
<1>1. PredictedTime(q.context) \in Prediction
    BY RequestTypes, PredictedTimeType
<1>2. InitialScore(q) \in Int
    <2>1. IsRuleList(rules) /\ q.base \in Int
        BY RequestTypes, EngineAssumption DEF EngineTypeOK
    <2>2. QED
        BY <2>1, ScoreIsNumber DEF InitialScore
<1>3. QED
    BY <1>1, <1>2, EngineAssumption
    DEF EngineTypeOK, Enqueue, Rows, JobState, resultCols

LEMMA RecomputePrioritiesType ==
    ASSUME EngineTypeOK, RecomputePriorities
    PROVE  EngineTypeOK'
<1>1. \A i \in Ids : state[i] = "pending" => CurrentScore(i) \in Int
    BY CurrentScoreType DEF Rows
<1>2. QED
    BY <1>1
    DEF EngineTypeOK, RecomputePriorities, Rows, insertCols, resultCols

LEMMA SelectJobType ==
    ASSUME EngineTypeOK, NEW i \in Ids, SelectJob(i)
    PROVE  EngineTypeOK'
<1>1. now \in Int /\ req[i] \in Requests
    BY EngineAssumption DEF EngineTypeOK, SelectJob, Eligible, Rows
<1>2. QED
    BY <1>1
    DEF EngineTypeOK, SelectJob, Rows, JobState, insertCols, resultCols

LEMMA CompleteType ==
    ASSUME EngineTypeOK, NEW i \in Rows, NEW cpu \in Durations, Complete(i, cpu)
    PROVE  EngineTypeOK'
<1>1. i \in Ids /\ cpu \in Nat /\ req[i] \in Requests /\ req[i].context \in Contexts
    BY EngineAssumption, RequestTypes DEF EngineTypeOK, Rows
<1>2. jobMetrics[req[i].context] \in Prediction
    BY <1>1 DEF EngineTypeOK
<1>3. MovingAverage(jobMetrics[req[i].context], cpu) \in Prediction
    BY <1>1, <1>2 DEF MovingAverage, Prediction
<1>4. jobMetrics' \in [Contexts -> Prediction]
    BY <1>1, <1>3 DEF EngineTypeOK, Complete
<1>5. IsAnomaly(i, cpu) \in BOOLEAN
    BY DEF IsAnomaly
<1>6. anomaly' \in [Ids -> BOOLEAN]
    BY <1>5 DEF EngineTypeOK, Complete
<1>7. QED
    BY <1>1, <1>4, <1>6
    DEF EngineTypeOK, Complete, Rows, JobState, insertCols

LEMMA FailType ==
    ASSUME EngineTypeOK, NEW i \in Rows, Fail(i)
    PROVE  EngineTypeOK'
<1>1. i \in Ids /\ retries[i] + 1 \in Nat /\ now \in Int
    BY EngineAssumption DEF EngineTypeOK, Rows
<1>2. now + Backoff(retries[i] + 1) \in Int
    BY <1>1 DEF Backoff
<1>3. runAt' \in [Ids -> Int]
    BY <1>2 DEF EngineTypeOK, Fail
<1>4. QED
    BY <1>1, <1>3
    DEF EngineTypeOK, Fail, Rows, JobState, insertCols, resultCols

LEMMA DLQReplayType ==
    ASSUME EngineTypeOK, DLQReplay
    PROVE  EngineTypeOK'
<1>1. now \in Int
    BY EngineAssumption DEF EngineTypeOK
<1>2. QED
    BY <1>1
    DEF EngineTypeOK, DLQReplay, Replayable, Rows, JobState, insertCols, resultCols

\* The operations that touch no table: new rules, a reopened database, a
\* second of the clock.
LEMMA OutsideTablesType ==
    ASSUME EngineTypeOK,
           (\E r \in RuleSets : SetRules(r)) \/ NewEngine \/ Tick
    PROVE  EngineTypeOK'
    BY EngineAssumption
    DEF EngineTypeOK, SetRules, NewEngine, Tick, Rows, tables, insertCols,
        queueCols, resultCols
-----------------------------------------------------------------------------
(* The invariant *)

\* When the process is down there are no goroutines.
DownMeansOff == proc = "down" => \A w \in Workers : pc[w] = "off"

PoolTypeOK ==
    /\ pc \in [Workers -> Place]
    /\ held \in [Workers -> Ids \cup {NoJob}]
    /\ activeJob \in [Workers -> BOOLEAN]
    /\ telemetry \in 0 .. ChanCap
    /\ proc \in {"up", "closing", "down"}
    /\ stopped \in BOOLEAN
    /\ replays \in 0 .. MaxReplays
    /\ faults \in 0 .. MaxFaults
    /\ crashes \in 0 .. MaxCrashes
    /\ shutdowns \in 0 .. MaxShutdowns
    /\ runs \in [Ids -> Nat]
    /\ scoresStale \in BOOLEAN
    /\ failedAt \in [Ids -> Nat]

IInv == TypeOK /\ ExclusiveReservation /\ DownMeansOff

LEMMA TypeParts == TypeOK <=> EngineTypeOK /\ PoolTypeOK
    BY DEF TypeOK, PoolTypeOK

-----------------------------------------------------------------------------
(* The job a worker holds has a row, so Complete and Fail find it *)

LEMMA HeldRow ==
    ASSUME IInv, NEW w \in Workers, pc[w] \in {"announcing", "running"}
    PROVE  held[w] \in Rows /\ held[w] \in Ids /\ state[held[w]] = "reserved"
<1>1. held[w] # NoJob
    BY DEF IInv, ExclusiveReservation
<1>2. held[w] \in Ids /\ state[held[w]] = "reserved"
    BY <1>1 DEF IInv, ExclusiveReservation, TypeOK
<1>3. QED
    BY <1>2 DEF Rows

-----------------------------------------------------------------------------
(* The engine's tables stay well-typed whatever the process does *)

LEMMA NextEngineType ==
    ASSUME IInv, Next
    PROVE  EngineTypeOK'
<1> EngineTypeOK
    BY DEF IInv, TypeOK
<1>1. CASE UNCHANGED engineVars
    BY <1>1 DEF engineVars, tables, insertCols, queueCols, resultCols,
               EngineTypeOK, Rows
<1>2. ASSUME NEW w \in Workers, Worker(w)
      PROVE  EngineTypeOK'
    <2>1. CASE StartReserve(w)
        BY <2>1, RecomputePrioritiesType DEF StartReserve
    <2>2. ASSUME NEW i \in Ids, PickJob(w, i)
          PROVE  EngineTypeOK'
        BY <2>2, SelectJobType DEF PickJob
    <2>3. ASSUME NEW cpu \in Durations, CompleteJob(w, cpu)
          PROVE  EngineTypeOK'
        <3>1. held[w] \in Rows
            BY <2>3, HeldRow DEF CompleteJob, Report, Goto
        <3>2. QED
            BY <2>3, <3>1, CompleteType DEF CompleteJob
    <2>4. CASE FailJob(w)
        <3>1. held[w] \in Rows
            BY <2>4, HeldRow DEF FailJob, Report, Goto
        <3>2. QED
            BY <2>4, <3>1, FailType DEF FailJob
    <2>5. CASE FindNothing(w) \/ ReserveError(w) \/ SendBusy(w) \/ ReportError(w)
               \/ SendIdle(w) \/ StopWorker(w)
        BY <1>1, <2>5 DEF FindNothing, ReserveError, NoReservation, SendBusy,
               ReportError, SendIdle, StopWorker
    <2>6. QED
        BY <1>2, <2>1, <2>2, <2>3, <2>4, <2>5 DEF Worker
<1>3. CASE Client
    <2>1. ASSUME NEW i \in Ids, NEW q \in Requests, RequestEnqueue(i, q)
          PROVE  EngineTypeOK'
        BY <2>1, EnqueueType DEF RequestEnqueue
    <2>2. CASE RequestReplay
        BY <2>2, DLQReplayType DEF RequestReplay
    <2>3. ASSUME NEW r \in RuleSets, RequestRules(r)
          PROVE  EngineTypeOK'
        BY <2>3, OutsideTablesType DEF RequestRules
    <2>4. QED
        BY <1>3, <2>1, <2>2, <2>3 DEF Client
<1>4. CASE TimePasses
    BY <1>4, OutsideTablesType DEF TimePasses
<1>5. CASE Restart
    BY <1>5, OutsideTablesType DEF Restart
<1>6. CASE Heartbeat \/ Receive \/ Signal \/ StopPool \/ Shutdown \/ Crash
    BY <1>1, <1>6 DEF Heartbeat, Receive, Signal, StopPool, Shutdown, Crash,
           ProcessEnds
<1>7. QED
    BY <1>2, <1>3, <1>4, <1>5, <1>6 DEF Next

-----------------------------------------------------------------------------
(* The process's own variables stay well-typed *)

LEMMA NextPoolType ==
    ASSUME IInv, Next
    PROVE  PoolTypeOK'
<1> USE PoolAssumption DEF IInv, TypeOK, PoolTypeOK, Place, workerVars,
        processVars, boundVars, history
<1>1. ASSUME NEW w \in Workers, Worker(w)
      PROVE  PoolTypeOK'
    <2>1. CASE StartReserve(w)
        BY <2>1 DEF StartReserve, Goto
    <2>2. ASSUME NEW i \in Ids, PickJob(w, i)
          PROVE  PoolTypeOK'
        BY <2>2 DEF PickJob, Goto
    <2>3. CASE FindNothing(w) \/ ReserveError(w)
        BY <2>3 DEF FindNothing, ReserveError, NoReservation, Fault, Goto
    <2>4. CASE SendBusy(w)
        BY <2>4, HeldRow DEF SendBusy, Send, Goto
    <2>5. CASE ReportError(w) \/ \E cpu \in Durations : CompleteJob(w, cpu)
        BY <2>5 DEF CompleteJob, ReportError, Report, Fault, Goto
    <2>6. CASE FailJob(w)
        <3>1. Clock \in Nat
            BY EngineAssumption DEF Clock, EngineTypeOK
        <3>2. QED
            BY <2>6, <3>1 DEF FailJob, Report, Goto
    <2>7. CASE SendIdle(w)
        BY <2>7 DEF SendIdle, Send, Goto
    <2>8. CASE StopWorker(w)
        BY <2>8 DEF StopWorker, Goto
    <2>9. QED
        BY <1>1, <2>1, <2>2, <2>3, <2>4, <2>5, <2>6, <2>7, <2>8 DEF Worker
<1>2. CASE Client
    <2>1. CASE \E i \in Ids, q \in Requests : RequestEnqueue(i, q)
        BY <2>1 DEF RequestEnqueue, Request
    <2>2. CASE RequestReplay
        BY <2>2 DEF RequestReplay, Request
    <2>3. CASE \E r \in RuleSets : RequestRules(r)
        BY <2>3 DEF RequestRules, Request
    <2>4. QED
        BY <1>2, <2>1, <2>2, <2>3 DEF Client
<1>3. CASE Heartbeat \/ Receive
    BY <1>3 DEF Heartbeat, Receive, Send
<1>4. CASE TimePasses \/ Signal \/ StopPool \/ Restart
    BY <1>4 DEF TimePasses, Signal, StopPool, Restart
<1>5. CASE Shutdown \/ Crash
    <2>1. activeJob' \in [Workers -> BOOLEAN]
        BY <1>5, Zenon DEF Shutdown, Crash, ProcessEnds
    <2>2. pc' \in [Workers -> Place] /\ held' \in [Workers -> Ids \cup {NoJob}]
        BY <1>5 DEF Shutdown, Crash, ProcessEnds
    <2>3. /\ crashes' \in 0 .. MaxCrashes
          /\ shutdowns' \in 0 .. MaxShutdowns
        BY <1>5 DEF Shutdown, Crash
    <2>4. telemetry' \in 0 .. ChanCap
        BY <1>5 DEF Shutdown, Crash, ProcessEnds
    <2>5. proc' \in {"up", "closing", "down"} /\ stopped' \in BOOLEAN
        BY <1>5 DEF Shutdown, Crash, ProcessEnds
    <2>6. /\ UNCHANGED replays
          /\ UNCHANGED faults
          /\ UNCHANGED runs
          /\ UNCHANGED scoresStale
          /\ UNCHANGED failedAt
        BY <1>5 DEF Shutdown, Crash, ProcessEnds
    <2>7. QED
        BY <2>1, <2>2, <2>3, <2>4, <2>5, <2>6
<1>6. QED
    BY <1>1, <1>2, <1>3, <1>4, <1>5 DEF Next

-----------------------------------------------------------------------------
(* Reservations stay exclusive *)

LEMMA NextExclusive ==
    ASSUME IInv, Next
    PROVE  ExclusiveReservation'
<1> USE DEF IInv, TypeOK, EngineTypeOK, ExclusiveReservation
<1>1. ASSUME NEW w \in Workers, Worker(w)
      PROVE  ExclusiveReservation'
    <2>1. CASE StartReserve(w)
        BY <2>1 DEF StartReserve, Goto, RecomputePriorities
    <2>2. ASSUME NEW i \in Ids, PickJob(w, i)
          PROVE  ExclusiveReservation'
        <3>1. \A v \in Workers : held[v] # i
            BY <2>2, PoolAssumption DEF PickJob, SelectJob, Eligible
        <3>2. QED
            BY <2>2, <3>1, PoolAssumption DEF PickJob, SelectJob, Goto
    <2>3. CASE FindNothing(w) \/ ReserveError(w)
        BY <2>3 DEF FindNothing, ReserveError, NoReservation, Goto,
               engineVars, tables, queueCols
    <2>4. CASE SendBusy(w) \/ SendIdle(w) \/ StopWorker(w)
        BY <2>4 DEF SendBusy, SendIdle, StopWorker, Goto, engineVars, tables,
               queueCols
    <2>5. ASSUME NEW cpu \in Durations, CompleteJob(w, cpu)
          PROVE  ExclusiveReservation'
        BY <2>5, HeldRow DEF CompleteJob, Report, Goto, Complete
    <2>6. CASE FailJob(w)
        BY <2>6, HeldRow DEF FailJob, Report, Goto, Fail
    <2>7. CASE ReportError(w)
        BY <2>7 DEF ReportError, Report, Goto, engineVars, tables, queueCols
    <2>8. QED
        BY <1>1, <2>1, <2>2, <2>3, <2>4, <2>5, <2>6, <2>7 DEF Worker
<1>2. ASSUME NEW i \in Ids, NEW q \in Requests, RequestEnqueue(i, q)
      PROVE  ExclusiveReservation'
    BY <1>2 DEF RequestEnqueue, Request, Enqueue, Insertable, Rows, workerVars
<1>3. CASE RequestReplay
    BY <1>3 DEF RequestReplay, Request, DLQReplay, Replayable, workerVars
<1>4. CASE \E r \in RuleSets : RequestRules(r)
    BY <1>4 DEF RequestRules, Request, SetRules, workerVars, tables, queueCols
<1>5. CASE TimePasses
    BY <1>5 DEF TimePasses, Tick, workerVars, tables, queueCols
<1>6. CASE Heartbeat \/ Receive \/ Signal \/ StopPool
    BY <1>6 DEF Heartbeat, Receive, Signal, StopPool, workerVars, engineVars,
           tables, queueCols
<1>7. CASE Shutdown \/ Crash
    BY <1>7 DEF Shutdown, Crash, ProcessEnds
<1>8. CASE Restart
    <2>1. \A w \in Workers : held[w] = NoJob
        BY <1>8 DEF Restart, DownMeansOff
    <2>2. QED
        BY <1>8, <2>1 DEF Restart
<1>9. QED
    BY <1>1, <1>2, <1>3, <1>4, <1>5, <1>6, <1>7, <1>8 DEF Next, Client

LEMMA NextDownMeansOff ==
    ASSUME IInv, Next
    PROVE  DownMeansOff'
<1> USE DEF IInv, TypeOK, DownMeansOff
<1>1. ASSUME NEW w \in Workers, Worker(w)
      PROVE  DownMeansOff'
    <2>1. proc # "down"
        BY <1>1 DEF Worker, StartReserve, PickJob, FindNothing, ReserveError,
               NoReservation, SendBusy, CompleteJob, FailJob, ReportError,
               Report, SendIdle, StopWorker, Goto
    <2>2. UNCHANGED proc
        BY <1>1 DEF Worker, StartReserve, PickJob, FindNothing, ReserveError,
               NoReservation, SendBusy, CompleteJob, FailJob, ReportError,
               Report, SendIdle, StopWorker, processVars
    <2>3. QED
        BY <2>1, <2>2
<1>2. CASE Client
    BY <1>2 DEF Client, RequestEnqueue, RequestReplay, RequestRules, Request,
           workerVars, processVars
<1>3. CASE Heartbeat \/ Receive \/ TimePasses \/ Signal \/ StopPool \/ Restart
    BY <1>3 DEF Heartbeat, Receive, TimePasses, Signal, StopPool, Restart,
           workerVars, processVars
<1>4. CASE Shutdown \/ Crash
    BY <1>4 DEF Shutdown, Crash, ProcessEnds
<1>5. QED
    BY <1>1, <1>2, <1>3, <1>4 DEF Next

-----------------------------------------------------------------------------
(* The inductive invariant *)

LEMMA InitIInv == Init => IInv
<1> SUFFICES ASSUME Init PROVE IInv
    OBVIOUS
<1>1. EngineTypeOK
    BY EngineInitType DEF Init
<1>2. PoolTypeOK
    <2>1. activeJob \in [Workers -> BOOLEAN]
        BY Zenon DEF Init
    <2>2. pc \in [Workers -> Place] /\ held \in [Workers -> Ids \cup {NoJob}]
        BY DEF Init, Place
    <2>3. runs \in [Ids -> Nat] /\ failedAt \in [Ids -> Nat]
        BY DEF Init
    <2>4. /\ telemetry \in 0 .. ChanCap
          /\ replays \in 0 .. MaxReplays
          /\ faults \in 0 .. MaxFaults
          /\ crashes \in 0 .. MaxCrashes
          /\ shutdowns \in 0 .. MaxShutdowns
        BY PoolAssumption DEF Init
    <2>5. /\ proc \in {"up", "closing", "down"}
          /\ stopped \in BOOLEAN
          /\ scoresStale \in BOOLEAN
        BY DEF Init
    <2>6. QED
        BY <2>1, <2>2, <2>3, <2>4, <2>5 DEF PoolTypeOK
<1>3. ExclusiveReservation /\ DownMeansOff
    BY PoolAssumption DEF Init, ExclusiveReservation, DownMeansOff
<1>4. QED
    BY <1>1, <1>2, <1>3, TypeParts DEF IInv

LEMMA NextIInv == IInv /\ [Next]_vars => IInv'
<1> SUFFICES ASSUME IInv, [Next]_vars PROVE IInv'
    OBVIOUS
<1>1. CASE Next
    BY <1>1, NextEngineType, NextPoolType, NextExclusive, NextDownMeansOff
    DEF IInv, TypeOK, PoolTypeOK
<1>2. CASE UNCHANGED vars
    BY <1>2 DEF vars, engineVars, tables, insertCols, queueCols, resultCols,
           poolVars, workerVars, processVars, boundVars, history, IInv, TypeOK,
           EngineTypeOK, Rows, ExclusiveReservation, DownMeansOff
<1>3. QED
    BY <1>1, <1>2

\* The inductive invariant holds in every reachable state.
THEOREM Invariance == Spec => []IInv
    BY InitIInv, NextIInv, PTL DEF Spec

\* Every variable keeps its type: in particular no operation ever computes a
\* score, a time or an average outside its domain from the columns of a row
\* that does not exist.
THEOREM TypeCorrectness == Spec => []TypeOK
<1>1. IInv => TypeOK
    BY DEF IInv
<1>2. QED
    BY <1>1, Invariance, PTL

\* No two workers ever execute one job at the same time, and a job being
\* executed is reserved, through faults, crashes, shutdowns and restarts.
THEOREM ExclusiveReservations == Spec => []ExclusiveReservation
<1>1. IInv => ExclusiveReservation
    BY DEF IInv
<1>2. QED
    BY <1>1, Invariance, PTL

-----------------------------------------------------------------------------
(* The lifecycle of a row *)

LEMMA StepAlongLifecycle ==
    ASSUME IInv, Next
    PROVE  \A i \in Ids : state'[i] # state[i] => <<state[i], state'[i]>> \in Lifecycle
<1> USE DEF Lifecycle
<1> state \in [Ids -> JobState \cup {"absent"}]
    BY DEF IInv, TypeOK, EngineTypeOK
<1> DEFINE Goal == \A i \in Ids : state'[i] # state[i]
                                    => <<state[i], state'[i]>> \in Lifecycle
<1>1. CASE UNCHANGED state
    BY <1>1
<1>2. ASSUME NEW w \in Workers, Worker(w)
      PROVE  Goal
    <2>1. ASSUME NEW i \in Ids, PickJob(w, i)
          PROVE  Goal
        BY <2>1 DEF PickJob, SelectJob, Eligible
    <2>2. ASSUME NEW cpu \in Durations, CompleteJob(w, cpu)
          PROVE  Goal
        BY <2>2, HeldRow DEF CompleteJob, Report, Goto, Complete
    <2>3. CASE FailJob(w)
        BY <2>3, HeldRow DEF FailJob, Report, Goto, Fail
    <2>4. CASE StartReserve(w) \/ FindNothing(w) \/ ReserveError(w) \/ SendBusy(w)
               \/ ReportError(w) \/ SendIdle(w) \/ StopWorker(w)
        BY <1>1, <2>4 DEF StartReserve, RecomputePriorities, FindNothing,
               ReserveError, NoReservation, SendBusy, ReportError, SendIdle,
               StopWorker, engineVars, tables, queueCols
    <2>5. QED
        BY <1>2, <2>1, <2>2, <2>3, <2>4 DEF Worker
<1>3. CASE Client
    <2>1. ASSUME NEW i \in Ids, NEW q \in Requests, RequestEnqueue(i, q)
          PROVE  Goal
        BY <2>1 DEF RequestEnqueue, Enqueue, Insertable, Rows
    <2>2. CASE RequestReplay
        BY <2>2 DEF RequestReplay, DLQReplay, Replayable
    <2>3. CASE \E r \in RuleSets : RequestRules(r)
        BY <1>1, <2>3 DEF RequestRules, SetRules, tables, queueCols
    <2>4. QED
        BY <1>3, <2>1, <2>2, <2>3 DEF Client
<1>4. CASE TimePasses \/ Restart \/ Heartbeat \/ Receive \/ Signal \/ StopPool
           \/ Shutdown \/ Crash
    BY <1>1, <1>4 DEF TimePasses, Tick, Restart, NewEngine, Heartbeat, Receive,
           Signal, StopPool, Shutdown, Crash, ProcessEnds, engineVars, tables,
           queueCols
<1>5. QED
    BY <1>2, <1>3, <1>4 DEF Next

\* Complete and Fail name a row and look at nothing else, yet they only meet
\* reserved rows: no job leaves "done", none skips its reservation.
THEOREM LifecycleFollowed == Spec => LegalTransitions
<1>1. IInv /\ [Next]_vars
        => [\A i \in Ids : state'[i] # state[i]
                            => <<state[i], state'[i]>> \in Lifecycle]_vars
    BY StepAlongLifecycle
<1>2. QED
    BY <1>1, Invariance, PTL DEF Spec, LegalTransitions

\* The states a row is ever in: "running" and "failed" are declared, queried
\* for and displayed, and never stored.
StoredStates ==
    \A i \in Ids : state[i] \in {"absent", "pending", "reserved", "done", "dead"}

LEMMA StoredStatesInvariant == Spec => []StoredStates
<1>1. Init => StoredStates
    BY DEF Init, EngineInit, StoredStates
<1>2. IInv /\ StoredStates /\ [Next]_vars => StoredStates'
    <2> SUFFICES ASSUME IInv, StoredStates, [Next]_vars, NEW i \in Ids
                 PROVE  state'[i] \in {"absent", "pending", "reserved", "done", "dead"}
        BY DEF StoredStates
    <2>1. CASE state'[i] = state[i]
        BY <2>1 DEF StoredStates
    <2>2. CASE state'[i] # state[i]
        <3>1. Next
            BY <2>2 DEF vars, engineVars, tables, queueCols
        <3>2. <<state[i], state'[i]>> \in Lifecycle
            BY <2>2, <3>1, StepAlongLifecycle
        <3>3. QED
            BY <3>2 DEF Lifecycle
    <2>3. QED
        BY <2>1, <2>2
<1>3. QED
    BY <1>1, <1>2, Invariance, PTL DEF Spec

-----------------------------------------------------------------------------
(* Deduplication *)

\* The UNIQUE constraint on content_hash.
UniquePayloads ==
    \A i, k \in Rows : req[i].payload = req[k].payload => i = k

LEMMA OnlyEnqueueInserts ==
    ASSUME IInv, Next, ~ \E i \in Ids, q \in Requests : RequestEnqueue(i, q)
    PROVE  UNCHANGED req /\ Rows' = Rows
<1> state \in [Ids -> JobState \cup {"absent"}]
    BY DEF IInv, TypeOK, EngineTypeOK
<1>1. UNCHANGED req
    BY DEF Next, Worker, Client, StartReserve, RecomputePriorities, PickJob,
           SelectJob, FindNothing, ReserveError, NoReservation, SendBusy,
           CompleteJob, Complete, FailJob, Fail, ReportError, SendIdle,
           StopWorker, RequestReplay, DLQReplay, RequestRules, SetRules,
           TimePasses, Tick, Restart, NewEngine, Heartbeat, Receive, Signal,
           StopPool, Shutdown, Crash, ProcessEnds, engineVars, tables,
           insertCols
<1>2. Rows' = Rows
    <2>1. CASE UNCHANGED state
        BY <2>1 DEF Rows
    <2>2. ASSUME NEW w \in Workers,
                 \/ \E i \in Ids : PickJob(w, i)
                 \/ \E cpu \in Durations : CompleteJob(w, cpu)
                 \/ FailJob(w)
          PROVE  Rows' = Rows
        <3>1. ASSUME NEW i \in Ids, PickJob(w, i)
              PROVE  Rows' = Rows
            BY <3>1 DEF PickJob, SelectJob, Eligible, Rows
        <3>2. ASSUME NEW cpu \in Durations, CompleteJob(w, cpu)
              PROVE  Rows' = Rows
            BY <3>2, HeldRow DEF CompleteJob, Report, Goto, Complete, Rows
        <3>3. CASE FailJob(w)
            BY <3>3, HeldRow DEF FailJob, Report, Goto, Fail, Rows
        <3>4. QED
            BY <2>2, <3>1, <3>2, <3>3
    <2>3. CASE RequestReplay
        BY <2>3 DEF RequestReplay, DLQReplay, Replayable, Rows
    <2>4. CASE \/ \E w \in Workers : \/ StartReserve(w) \/ FindNothing(w)
                                     \/ ReserveError(w) \/ SendBusy(w)
                                     \/ ReportError(w) \/ SendIdle(w)
                                     \/ StopWorker(w)
               \/ \E r \in RuleSets : RequestRules(r)
               \/ TimePasses \/ Restart \/ Heartbeat \/ Receive \/ Signal
               \/ StopPool \/ Shutdown \/ Crash
        BY <2>1, <2>4
        DEF StartReserve, RecomputePriorities, FindNothing, ReserveError,
            NoReservation, SendBusy, ReportError, SendIdle, StopWorker,
            RequestRules, SetRules, TimePasses, Tick, Restart, NewEngine,
            Heartbeat, Receive, Signal, StopPool, Shutdown, Crash, ProcessEnds,
            engineVars, tables, queueCols
    <2>5. QED
        BY <2>2, <2>3, <2>4 DEF Next, Worker, Client
<1>3. QED
    BY <1>1, <1>2

LEMMA NextUniquePayloads ==
    IInv /\ UniquePayloads /\ [Next]_vars => UniquePayloads'
<1> SUFFICES ASSUME IInv, UniquePayloads, [Next]_vars PROVE UniquePayloads'
    OBVIOUS
<1> USE DEF UniquePayloads
<1>1. ASSUME NEW i \in Ids, NEW q \in Requests, RequestEnqueue(i, q)
      PROVE  UniquePayloads'
    <2>1. Rows' = Rows \cup {i}
        BY <1>1 DEF RequestEnqueue, Enqueue, Rows, IInv, TypeOK, EngineTypeOK
    <2>2. /\ req'[i] = q
          /\ \A k \in Rows : req'[k] = req[k] /\ req[k].payload # q.payload
        BY <1>1 DEF RequestEnqueue, Enqueue, Insertable, Rows, IInv, TypeOK,
                   EngineTypeOK
    <2>3. QED
        BY <2>1, <2>2
<1>2. CASE Next /\ ~ \E i \in Ids, q \in Requests : RequestEnqueue(i, q)
    BY <1>2, OnlyEnqueueInserts
<1>3. CASE UNCHANGED vars
    BY <1>3 DEF vars, engineVars, tables, insertCols, queueCols, Rows
<1>4. QED
    BY <1>1, <1>2, <1>3

LEMMA UniquePayloadsInvariant == Spec => []UniquePayloads
<1>1. Init => UniquePayloads
    BY DEF Init, EngineInit, UniquePayloads, Rows
<1>2. QED
    BY <1>1, NextUniquePayloads, Invariance, PTL DEF Spec

\* A payload is waiting or being executed at most once, for any sequence of
\* enqueues, failures and replays, because it has one row.
THEOREM Deduplication == Spec => []OneJobPerPayload
<1>1. UniquePayloads => OneJobPerPayload
    BY DEF UniquePayloads, OneJobPerPayload
<1>2. QED
    BY <1>1, UniquePayloadsInvariant, PTL

-----------------------------------------------------------------------------
(* Scores at a reservation *)

\* The rows that wait for a later time may have an outdated score: those that
\* were reserved during the last recomputation and failed since.
WaitingScores ==
    ~scoresStale =>
        \A i \in Ids : state[i] = "pending" => Fresh(i) \/ runAt[i] > now

\* What a score is computed from stays as it is, and no other row begins to wait
\* before its time.
LEMMA ScoresKept ==
    ASSUME WaitingScores,
           UNCHANGED <<createdAt, rules, now, part, scoresStale>>, UNCHANGED req,
           \A i \in Ids : state'[i] = "pending" =>
              \/ state[i] = "pending" /\ score'[i] = score[i] /\ runAt'[i] = runAt[i]
              \/ runAt'[i] > now
    PROVE  WaitingScores'
    BY DEF WaitingScores, Fresh, ScoreAt

\* A score is fresh when it was just computed: the exact age is the whole seconds
\* since created_at and the part of the second.
LEMMA CurrentIsFresh ==
    ASSUME EngineTypeOK, NEW i \in Ids, score[i] = CurrentScore(i)
    PROVE  Fresh(i)
<1>1. /\ part \in 0 .. part
      /\ Clock - 10 * createdAt[i] = 10 * (now - createdAt[i]) + part
    <2>1. part \in Nat /\ now \in Int /\ createdAt[i] \in Int
        BY EngineAssumption DEF EngineTypeOK
    <2>2. QED
        BY <2>1 DEF Clock
<1>2. QED
    BY <1>1 DEF Fresh, CurrentScore

\* And as long as its second lasts.
LEMMA FreshAllSecond ==
    ASSUME EngineTypeOK, Tick, now' = now, NEW i \in Ids, Fresh(i)
    PROVE  Fresh(i)'
<1>1. /\ UNCHANGED <<req, createdAt, score, rules>>
      /\ part' > part
    <2>1. now \in Int
        BY EngineAssumption DEF EngineTypeOK
    <2>2. QED
        BY <2>1 DEF Tick, tables, insertCols, queueCols
<1>2. PICK p \in 0 .. part : score[i] = ScoreAt(i, 10 * (now - createdAt[i]) + p)
    BY DEF Fresh
<1>3. p \in 0 .. part'
    <2>1. part \in Nat /\ part' \in Nat
        BY EngineAssumption DEF EngineTypeOK, Tick
    <2>2. QED
        BY <1>1, <1>2, <2>1
<1>4. QED
    BY <1>1, <1>2, <1>3 DEF Fresh, ScoreAt

LEMMA NextWaitingScores ==
    IInv /\ WaitingScores /\ [Next]_vars => WaitingScores'
<1> SUFFICES ASSUME IInv, WaitingScores, [Next]_vars PROVE WaitingScores'
    OBVIOUS
<1> USE DEF IInv, TypeOK, EngineTypeOK
<1>1. CASE UNCHANGED <<engineVars, scoresStale>>
    BY <1>1, ScoresKept DEF engineVars, tables, insertCols, queueCols
<1>2. ASSUME NEW w \in Workers, Worker(w)
      PROVE  WaitingScores'
    <2>1. CASE StartReserve(w)
        <3>1. RecomputePriorities
            BY <2>1 DEF StartReserve
        <3>2. ASSUME NEW i \in Ids, state'[i] = "pending"
              PROVE  Fresh(i)'
            <4>1. EngineTypeOK'
                BY <3>1, RecomputePrioritiesType
            <4>2. score'[i] = CurrentScore(i)'
                BY <3>1, <3>2 DEF RecomputePriorities, insertCols, CurrentScore,
                                  ScoreAt, Clock
            <4>3. /\ part' \in 0 .. part'
                  /\ Clock' - 10 * createdAt'[i] = 10 * (now' - createdAt'[i]) + part'
                <5>1. part' \in Nat /\ now' \in Int /\ createdAt'[i] \in Int
                    BY <4>1, EngineAssumption
                <5>2. QED
                    BY <5>1 DEF Clock
            <4>4. QED
                BY <4>2, <4>3 DEF Fresh, CurrentScore
        <3>3. QED
            BY <3>2 DEF WaitingScores
    <2>2. ASSUME NEW i \in Ids, PickJob(w, i)
          PROVE  WaitingScores'
        BY <2>2, ScoresKept DEF PickJob, SelectJob, insertCols, history
    <2>3. ASSUME NEW cpu \in Durations, CompleteJob(w, cpu)
          PROVE  WaitingScores'
        <3>1. held[w] \in Ids
            BY <2>3, HeldRow DEF CompleteJob, Report, Goto
        <3>2. QED
            BY <2>3, <3>1, ScoresKept
            DEF CompleteJob, Report, Complete, insertCols, history
    <2>4. CASE FailJob(w)
        <3> DEFINE i == held[w]
                   n == retries[i] + 1
        <3>1. i \in Ids /\ i \in Rows
            BY <2>4, HeldRow DEF FailJob, Report, Goto
        <3>2. /\ UNCHANGED <<createdAt, rules, now, part, scoresStale>>
              /\ UNCHANGED req
              /\ UNCHANGED score
              /\ \A k \in Ids : k # i => state'[k] = state[k] /\ runAt'[k] = runAt[k]
            BY <2>4 DEF FailJob, Report, Fail, insertCols, history
        <3>3. state'[i] = "pending" => runAt'[i] > now
            <4> SUFFICES ASSUME state'[i] = "pending" PROVE runAt'[i] > now
                OBVIOUS
            <4>1. RetriesLeft(i, n) /\ runAt'[i] = now + Backoff(n)
                BY <2>4, <3>1 DEF FailJob, Fail
            <4>2. req[i] \in Requests /\ n \in 1 .. req[i].maxRetries
                BY <3>1, <4>1, RequestTypes DEF RetriesLeft, Rows
            <4>3. Backoff(n) > 0 /\ Backoff(n) \in Int
                BY <4>2, BackoffAssumption DEF Backoff
            <4>4. now \in Int
                BY EngineAssumption
            <4>5. QED
                BY <4>1, <4>3, <4>4
        <3>4. QED
            BY <3>2, <3>3, ScoresKept
    <2>5. CASE FindNothing(w) \/ ReserveError(w) \/ SendBusy(w) \/ ReportError(w)
               \/ SendIdle(w) \/ StopWorker(w)
        BY <1>1, <2>5 DEF FindNothing, ReserveError, NoReservation, SendBusy,
               ReportError, Report, SendIdle, StopWorker, history
    <2>6. QED
        BY <1>2, <2>1, <2>2, <2>3, <2>4, <2>5 DEF Worker
<1>3. ASSUME NEW i \in Ids, NEW q \in Requests, RequestEnqueue(i, q)
      PROVE  WaitingScores'
    <2>1. i \in Ids /\ state[i] = "absent"
        BY <1>3 DEF RequestEnqueue, Enqueue, Insertable, Rows
    <2>2. /\ score'[i] = ComputePriorityScore(q.context, q.base, 0, rules)
          /\ createdAt'[i] = now
          /\ req'[i] = q
          /\ UNCHANGED <<rules, now, part, scoresStale>>
        BY <1>3, <2>1 DEF RequestEnqueue, Enqueue, InitialScore
    <2>3. Fresh(i)'
        <3>1. 0 \in 0 .. part' /\ 10 * (now' - createdAt'[i]) + 0 = 0
            BY <2>2, EngineAssumption
        <3>2. QED
            BY <2>2, <3>1 DEF Fresh, ScoreAt
    <2>4. \A k \in Ids : k # i => /\ state'[k] = state[k]
                                  /\ score'[k] = score[k]
                                  /\ runAt'[k] = runAt[k]
                                  /\ createdAt'[k] = createdAt[k]
                                  /\ req'[k] = req[k]
        BY <1>3 DEF RequestEnqueue, Enqueue
    <2>5. ASSUME NEW k \in Ids, k # i, ~scoresStale, state'[k] = "pending"
          PROVE  Fresh(k)' \/ runAt'[k] > now'
        BY <2>2, <2>4, <2>5 DEF WaitingScores, Fresh, ScoreAt
    <2>6. QED
        BY <2>2, <2>3, <2>5 DEF WaitingScores
<1>4. CASE TimePasses
    <2>1. CASE now' = now
        <3>1. EngineTypeOK /\ Tick
            BY <1>4 DEF TimePasses
        <3>2. UNCHANGED state /\ UNCHANGED runAt /\ scoresStale' = scoresStale
            BY <1>4, <2>1 DEF TimePasses, Tick, tables, queueCols
        <3>3. \A i \in Ids : Fresh(i) => Fresh(i)'
            BY <2>1, <3>1, FreshAllSecond
        <3>4. QED
            BY <2>1, <3>2, <3>3 DEF WaitingScores
    <2>2. CASE now' # now
        BY <1>4, <2>2 DEF TimePasses, WaitingScores
    <2>3. QED
        BY <2>1, <2>2
<1>5. CASE RequestReplay \/ Restart \/ \E r \in RuleSets : RequestRules(r)
    BY <1>5 DEF RequestReplay, RequestRules, Restart, WaitingScores
<1>6. CASE Heartbeat \/ Receive \/ Signal \/ StopPool \/ Shutdown \/ Crash
           \/ UNCHANGED vars
    BY <1>1, <1>6 DEF Heartbeat, Receive, Signal, StopPool, Shutdown, Crash,
           ProcessEnds, vars, poolVars, history
<1>7. QED
    BY <1>2, <1>3, <1>4, <1>5, <1>6 DEF Next, Client

\* What a reservation ranks carries a score that the rules gave it in the current
\* second, unless a second began, the rules changed or a replay came since the
\* recomputation: neither an enqueue nor a failure brings in an older one.
THEOREM ScoresAreFresh == Spec => []FreshScores
<1>1. Init => WaitingScores
    BY DEF Init, EngineInit, WaitingScores
<1>2. IInv /\ WaitingScores => FreshScores
    <2> SUFFICES ASSUME IInv, WaitingScores, ~scoresStale, NEW i \in Eligible
                 PROVE  Fresh(i)
        BY DEF FreshScores
    <2>1. i \in Ids /\ state[i] = "pending" /\ runAt[i] <= now
        BY DEF Eligible
    <2>2. ~(runAt[i] > now)
        BY <2>1, EngineAssumption DEF IInv, TypeOK, EngineTypeOK
    <2>3. QED
        BY <2>1, <2>2 DEF WaitingScores
<1>3. QED
    BY <1>1, <1>2, NextWaitingScores, Invariance, PTL DEF Spec

-----------------------------------------------------------------------------
(* Who is reserved first *)

\* A row becomes reserved only by a worker's selection.
LEMMA ReservedBySelection ==
    ASSUME IInv, [Next]_vars, NEW i \in Ids, Reserving(i)
    PROVE  SelectJob(i)
<1> USE DEF IInv, TypeOK, EngineTypeOK
<1>1. PICK w \in Workers, k \in Ids : PickJob(w, k)
    <2>1. CASE Client
        BY <2>1 DEF Client, RequestEnqueue, Enqueue, RequestReplay, DLQReplay,
               Replayable, RequestRules, SetRules, tables, queueCols, Reserving
    <2>2. ASSUME NEW w \in Workers, Worker(w), ~\E k \in Ids : PickJob(w, k)
          PROVE  FALSE
        <3>1. CASE FailJob(w) \/ \E cpu \in Durations : CompleteJob(w, cpu)
            BY <2>2, <3>1 DEF FailJob, Fail, CompleteJob, Complete, Reserving
        <3>2. CASE ~(FailJob(w) \/ \E cpu \in Durations : CompleteJob(w, cpu))
            BY <2>2, <3>2 DEF Worker, StartReserve, RecomputePriorities, FindNothing,
                   ReserveError, NoReservation, SendBusy, ReportError, SendIdle,
                   StopWorker, engineVars, tables, queueCols, Reserving
        <3>3. QED
            BY <3>1, <3>2
    <2>3. CASE Heartbeat \/ Receive \/ TimePasses \/ Signal \/ StopPool \/ Shutdown
               \/ Crash \/ Restart \/ UNCHANGED vars
        BY <2>3 DEF Heartbeat, Receive, TimePasses, Tick, Signal, StopPool, Shutdown,
               Crash, ProcessEnds, Restart, NewEngine, vars, engineVars, tables,
               queueCols, Reserving
    <2>4. QED
        BY <2>1, <2>2, <2>3 DEF Next
<1>2. k = i
    BY <1>1 DEF PickJob, SelectJob, Reserving
<1>3. QED
    BY <1>1, <1>2 DEF PickJob

\* No row was inserted in the future: an age is never negative.
InsertedInPast == \A i \in Ids : createdAt[i] <= now

LEMMA NextInsertedInPast ==
    IInv /\ InsertedInPast /\ [Next]_vars => InsertedInPast'
<1> SUFFICES ASSUME IInv, InsertedInPast, [Next]_vars PROVE InsertedInPast'
    OBVIOUS
<1>1. /\ createdAt \in [Ids -> 0 .. MaxTime]
      /\ now \in Nat
    BY EngineAssumption DEF IInv, TypeOK, EngineTypeOK
<1>2. \/ UNCHANGED <<createdAt, now>>
      \/ createdAt' = createdAt /\ now' = now + 1
      \/ now' = now /\ \E i \in Ids : createdAt' = [createdAt EXCEPT ![i] = now]
    <2>1. CASE \E w \in Workers : Worker(w)
        BY <2>1 DEF Worker, StartReserve, RecomputePriorities, PickJob, SelectJob,
               FindNothing, ReserveError, NoReservation, SendBusy, CompleteJob,
               Complete, FailJob, Fail, ReportError, SendIdle, StopWorker,
               engineVars, tables, insertCols
    <2>2. CASE Client
        BY <2>2 DEF Client, RequestEnqueue, Enqueue, RequestReplay, DLQReplay,
               RequestRules, SetRules, tables, insertCols
    <2>3. CASE Heartbeat \/ Receive \/ TimePasses \/ Signal \/ StopPool \/ Shutdown
               \/ Crash \/ Restart \/ UNCHANGED vars
        BY <2>3 DEF Heartbeat, Receive, TimePasses, Tick, Signal, StopPool, Shutdown,
               Crash, ProcessEnds, Restart, NewEngine, vars, engineVars, tables,
               insertCols
    <2>4. QED
        BY <2>1, <2>2, <2>3 DEF Next
<1>3. CASE UNCHANGED <<createdAt, now>>
    BY <1>3 DEF InsertedInPast
<1>4. CASE createdAt' = createdAt /\ now' = now + 1
    BY <1>1, <1>4 DEF InsertedInPast
<1>5. CASE now' = now /\ \E i \in Ids : createdAt' = [createdAt EXCEPT ![i] = now]
    BY <1>1, <1>5 DEF InsertedInPast
<1>6. QED
    BY <1>2, <1>3, <1>4, <1>5

\* Of two jobs to which the rules of the moment apply alike, the older one's score
\* is higher.
LEMMA OlderScoresHigher ==
    ASSUME NEW context, NEW base \in Int, IsRuleList(rules), RatesPositive(rules),
           NEW younger \in Nat, NEW older \in Nat, younger < older
    PROVE  ComputePriorityScore(context, base, younger, rules)
              < ComputePriorityScore(context, base, older, rules)
<1>1. PICK fresh \in Int, rate \in Nat \ {0} :
          \A age : ComputePriorityScore(context, base, age, rules)
                     = fresh + EffectiveAge(age) * rate
    BY EngineScoreGrows
<1>2. EffectiveAge(younger) = younger /\ EffectiveAge(older) = older
    BY DEF EffectiveAge
<1>3. fresh + younger * rate < fresh + older * rate
    <2>1. PICK more \in Nat \ {0} : older = younger + more
        <3>1. older - younger \in Nat \ {0} /\ older = younger + (older - younger)
            OBVIOUS
        <3>2. QED
            BY <3>1
    <2>2. older * rate = younger * rate + more * rate
        BY <2>1
    <2>3. more * rate > 0 /\ more * rate \in Nat /\ younger * rate \in Nat
        OBVIOUS
    <2>4. QED
        BY <2>2, <2>3
<1>4. QED
    BY <1>1, <1>2, <1>3

LEMMA YoungerWaits ==
    ASSUME IInv, FreshScores, InsertedInPast, [Next]_vars,
           NEW i \in Ids, NEW k \in Eligible, Reserving(i), LikeJobs(i, k),
           RatesPositive(rules), ~scoresStale
    PROVE  createdAt[i] <= createdAt[k]
<1> SUFFICES ASSUME createdAt[k] < createdAt[i]
             PROVE  FALSE
    BY EngineAssumption DEF IInv, TypeOK, EngineTypeOK, Eligible
<1>1. k \in Ids /\ i \in Eligible /\ RanksBefore(i, k)
    BY ReservedBySelection DEF SelectJob, Eligible
<1> DEFINE Older(j, p) == 10 * (now - createdAt[j]) + p
<1>2. PICK p \in 0 .. part, r \in 0 .. part :
          /\ score[i] = ScoreAt(i, Older(i, p))
          /\ score[k] = ScoreAt(k, Older(k, r))
    <2>1. Fresh(i) /\ Fresh(k)
        BY <1>1 DEF FreshScores
    <2>2. QED
        BY <2>1 DEF Fresh
<1>3. /\ i \in Rows /\ req[i].base \in Int
      /\ IsRuleList(rules)
    <2>1. i \in Rows
        BY <1>1 DEF Eligible, Rows
    <2>2. req[i] \in Requests /\ rules \in RuleSets
        BY <2>1 DEF IInv, TypeOK, EngineTypeOK
    <2>3. QED
        BY <2>1, <2>2, RequestTypes, EngineAssumption
<1>4. /\ Older(i, p) \in Nat
      /\ Older(k, r) \in Nat
      /\ Older(i, p) < Older(k, r)
    <2>1. /\ createdAt[i] \in Int /\ createdAt[k] \in Int /\ now \in Int
          /\ part \in 0 .. 9
        BY <1>1, EngineAssumption DEF IInv, TypeOK, EngineTypeOK
    <2>2. createdAt[i] <= now /\ createdAt[k] <= now
        BY <1>1 DEF InsertedInPast
    <2>3. p \in 0 .. 9 /\ r \in 0 .. 9
        BY <1>2, <2>1
    <2>4. QED
        BY <2>1, <2>2, <2>3
<1> HIDE DEF Older
<1>5. ScoreAt(i, Older(i, p)) < ScoreAt(k, Older(k, r))
    <2>1. ComputePriorityScore(req[i].context, req[i].base, Older(i, p), rules)
             < ComputePriorityScore(req[i].context, req[i].base, Older(k, r), rules)
        BY <1>3, <1>4, OlderScoresHigher
    <2>2. QED
        BY <2>1 DEF ScoreAt, LikeJobs
<1>6. score[i] \in Int /\ score[k] \in Int
    BY <1>1 DEF IInv, TypeOK, EngineTypeOK
<1>7. QED
    BY <1>1, <1>2, <1>5, <1>6 DEF RanksBefore

\* Of two jobs of one context and base priority, the one enqueued in an earlier
\* second is reserved first, for every rule list under which age counts: their
\* scores differ although each was computed at some other moment of the current
\* second, and RanksBefore looks at run_at only between equal scores.
THEOREM AgeDecides == Spec => OlderJobsFirst
<1>1. Init => InsertedInPast
    BY DEF Init, EngineInit, InsertedInPast
<1>2. IInv /\ FreshScores /\ InsertedInPast /\ [Next]_vars
      => [\A i \in Ids : \A k \in Eligible :
             Reserving(i) /\ LikeJobs(i, k) /\ RatesPositive(rules) /\ ~scoresStale
             => createdAt[i] <= createdAt[k]]_vars
    BY YoungerWaits
<1>3. QED
    BY <1>1, <1>2, NextInsertedInPast, ScoresAreFresh, Invariance, PTL
    DEF Spec, OlderJobsFirst

-----------------------------------------------------------------------------
(* Reservations that nobody holds *)

\* Failures so far that may have left a reservation behind.
OrphanBudget == faults + (crashes + shutdowns) * Cardinality(Workers)

OrphansBounded == IsFiniteSet(Orphans) /\ Cardinality(Orphans) <= OrphanBudget

LEMMA OneMoreEnd ==
    ASSUME IInv
    PROVE  /\ Cardinality(Workers) \in Nat
           /\ (crashes + shutdowns) * Cardinality(Workers) \in Nat
           /\ OrphanBudget \in Nat
           /\ (crashes + shutdowns + 1) * Cardinality(Workers)
                = (crashes + shutdowns) * Cardinality(Workers) + Cardinality(Workers)
<1>1. Cardinality(Workers) \in Nat
    BY PoolAssumption, FS_CardinalityType
<1>2. crashes + shutdowns \in Nat /\ faults \in Nat
    BY PoolAssumption DEF IInv, TypeOK
<1>3. ASSUME NEW a \in Nat, NEW b \in Nat
      PROVE  a * b \in Nat /\ (a + 1) * b = a * b + b
    BY <1>3
<1>4. (crashes + shutdowns) * Cardinality(Workers) \in Nat
    BY <1>1, <1>2, <1>3
<1>5. QED
    BY <1>1, <1>2, <1>3, <1>4 DEF OrphanBudget

\* Most steps leave no new reservation behind.
LEMMA NoNewOrphan ==
    ASSUME IInv, OrphansBounded, Orphans' \subseteq Orphans,
           UNCHANGED <<faults, crashes, shutdowns>>
    PROVE  OrphansBounded'
<1>1. IsFiniteSet(Orphans') /\ Cardinality(Orphans') <= Cardinality(Orphans)
    BY FS_Subset DEF OrphansBounded
<1>2. Cardinality(Orphans') \in Nat /\ Cardinality(Orphans) \in Nat
    BY <1>1, FS_CardinalityType DEF OrphansBounded
<1>3. OrphanBudget' = OrphanBudget /\ OrphanBudget \in Nat
    BY OneMoreEnd DEF OrphanBudget
<1>4. QED
    BY <1>1, <1>2, <1>3 DEF OrphansBounded

LEMMA WorkerOrphans ==
    ASSUME IInv, OrphansBounded, NEW w \in Workers, Worker(w)
    PROVE  OrphansBounded'
<1> USE DEF IInv, TypeOK, EngineTypeOK
<1>1. CASE ReportError(w)
    <2> DEFINE i == held[w]
    <2>1. /\ UNCHANGED state
          /\ held' = [held EXCEPT ![w] = NoJob]
          /\ faults' = faults + 1
          /\ UNCHANGED <<crashes, shutdowns>>
        BY <1>1 DEF ReportError, Report, Fault, engineVars, tables, queueCols
    <2>2. Orphans' \subseteq Orphans \cup {i}
        BY <2>1 DEF Orphans
    <2>3. /\ IsFiniteSet(Orphans \cup {i})
          /\ Cardinality(Orphans \cup {i}) <= Cardinality(Orphans) + 1
        <3>1. Cardinality(Orphans) \in Nat
            BY FS_CardinalityType DEF OrphansBounded
        <3>2. /\ IsFiniteSet(Orphans \cup {i})
              /\ Cardinality(Orphans \cup {i})
                   = IF i \in Orphans THEN Cardinality(Orphans) ELSE Cardinality(Orphans) + 1
            BY FS_AddElement DEF OrphansBounded
        <3>3. QED
            BY <3>1, <3>2
    <2>4. /\ IsFiniteSet(Orphans')
          /\ Cardinality(Orphans') <= Cardinality(Orphans \cup {i})
        BY <2>2, <2>3, FS_Subset
    <2>5. /\ Cardinality(Orphans) \in Nat
          /\ Cardinality(Orphans') \in Nat
          /\ Cardinality(Orphans \cup {i}) \in Nat
        BY <2>3, <2>4, FS_CardinalityType DEF OrphansBounded
    <2>6. OrphanBudget' = OrphanBudget + 1
        <3>1. faults \in Nat
            BY PoolAssumption
        <3>2. (crashes + shutdowns) * Cardinality(Workers) \in Nat
            BY OneMoreEnd
        <3>3. QED
            BY <2>1, <3>1, <3>2 DEF OrphanBudget
    <2>7. Cardinality(Orphans) <= OrphanBudget /\ OrphanBudget \in Nat
        BY OneMoreEnd DEF OrphansBounded
    <2>8. Cardinality(Orphans') <= OrphanBudget + 1
        BY <2>3, <2>4, <2>5, <2>7
    <2>9. QED
        BY <2>4, <2>6, <2>8 DEF OrphansBounded
<1>2. CASE ReserveError(w)
    <2>1. /\ UNCHANGED <<state, held, crashes, shutdowns>>
          /\ faults' = faults + 1
        BY <1>2 DEF ReserveError, NoReservation, Fault, engineVars, tables, queueCols
    <2>2. Orphans' = Orphans
        BY <2>1 DEF Orphans
    <2>3. OrphanBudget' = OrphanBudget + 1
        <3>1. faults \in Nat
            BY PoolAssumption
        <3>2. (crashes + shutdowns) * Cardinality(Workers) \in Nat
            BY OneMoreEnd
        <3>3. QED
            BY <2>1, <3>1, <3>2 DEF OrphanBudget
    <2>4. Cardinality(Orphans) \in Nat
        BY FS_CardinalityType DEF OrphansBounded
    <2>5. QED
        BY <2>2, <2>3, <2>4, OneMoreEnd DEF OrphansBounded
<1>3. CASE \E i \in Ids : PickJob(w, i)
    <2>1. PICK i \in Ids : PickJob(w, i)
        BY <1>3
    <2>2. held[w] = NoJob
        BY <2>1 DEF PickJob, Goto, ExclusiveReservation
    <2>3. Orphans' \subseteq Orphans
        BY <2>1, <2>2, PoolAssumption DEF PickJob, SelectJob, Orphans
    <2>4. QED
        BY <2>1, <2>3, NoNewOrphan DEF PickJob, boundVars
<1>4. CASE FailJob(w) \/ \E cpu \in Durations : CompleteJob(w, cpu)
    <2>1. held[w] \in Ids
        BY <1>4, HeldRow DEF FailJob, CompleteJob, Report, Goto
    <2>2. /\ held' = [held EXCEPT ![w] = NoJob]
          /\ state'[held[w]] # "reserved"
          /\ \A k \in Ids : k # held[w] => state'[k] = state[k]
        BY <1>4, <2>1 DEF FailJob, CompleteJob, Report, Fail, Complete
    <2>3. Orphans' \subseteq Orphans
        BY <2>2 DEF Orphans
    <2>4. QED
        BY <1>4, <2>3, NoNewOrphan DEF FailJob, CompleteJob, Report
<1>5. CASE StartReserve(w) \/ FindNothing(w) \/ SendBusy(w) \/ SendIdle(w)
           \/ StopWorker(w)
    <2>1. UNCHANGED <<state, held, faults, crashes, shutdowns>>
        BY <1>5 DEF StartReserve, RecomputePriorities, FindNothing, NoReservation,
               SendBusy, SendIdle, StopWorker, engineVars, tables, queueCols, boundVars
    <2>2. Orphans' \subseteq Orphans
        BY <2>1 DEF Orphans
    <2>3. QED
        BY <2>1, <2>2, NoNewOrphan
<1>6. QED
    BY <1>1, <1>2, <1>3, <1>4, <1>5 DEF Worker

\* The end of the process leaves the reservations of its workers behind.
LEMMA ProcessEndOrphans ==
    ASSUME IInv, OrphansBounded, Shutdown \/ Crash
    PROVE  OrphansBounded'
<1> USE DEF IInv, TypeOK
<1> DEFINE N == Cardinality(Workers)
           Held == {held[w] : w \in Workers}
<1>1. /\ UNCHANGED <<state, faults>>
      /\ crashes' + shutdowns' = crashes + shutdowns + 1
    BY PoolAssumption DEF Shutdown, Crash, ProcessEnds, engineVars, tables, queueCols
<1>2. Orphans' \subseteq Orphans \cup Held
    BY <1>1 DEF Orphans
<1>3. IsFiniteSet(Held) /\ Cardinality(Held) <= N
    <2>1. held \in Surjection(Workers, Held)
        BY DEF Surjection
    <2>2. QED
        BY <2>1, FS_Surjection, PoolAssumption
<1>4. /\ IsFiniteSet(Orphans \cup Held)
      /\ Cardinality(Orphans \cup Held) <= Cardinality(Orphans) + Cardinality(Held)
    <2>1. /\ IsFiniteSet(Orphans \cup Held)
          /\ IsFiniteSet(Orphans \cap Held)
          /\ Cardinality(Orphans \cup Held)
               = Cardinality(Orphans) + Cardinality(Held) - Cardinality(Orphans \cap Held)
        BY <1>3, FS_Union, FS_Intersection DEF OrphansBounded
    <2>2. /\ Cardinality(Orphans) \in Nat
          /\ Cardinality(Held) \in Nat
          /\ Cardinality(Orphans \cap Held) \in Nat
        BY <1>3, <2>1, FS_CardinalityType DEF OrphansBounded
    <2>3. QED
        BY <2>1, <2>2
<1>5. /\ IsFiniteSet(Orphans')
      /\ Cardinality(Orphans') <= Cardinality(Orphans \cup Held)
    BY <1>2, <1>4, FS_Subset
<1>6. /\ Cardinality(Orphans') \in Nat
      /\ Cardinality(Orphans) \in Nat
      /\ Cardinality(Held) \in Nat
      /\ Cardinality(Orphans \cup Held) \in Nat
    BY <1>3, <1>4, <1>5, FS_CardinalityType DEF OrphansBounded
<1>7. OrphanBudget' = OrphanBudget + N
    <2>1. faults \in Nat
        BY PoolAssumption
    <2>2. /\ N \in Nat
          /\ (crashes + shutdowns) * N \in Nat
          /\ (crashes + shutdowns + 1) * N = (crashes + shutdowns) * N + N
        BY OneMoreEnd
    <2>3. OrphanBudget' = faults + (crashes + shutdowns + 1) * N
        BY <1>1 DEF OrphanBudget
    <2>4. QED
        BY <2>1, <2>2, <2>3 DEF OrphanBudget
<1>8. /\ Cardinality(Orphans) <= OrphanBudget
      /\ OrphanBudget \in Nat
      /\ N \in Nat
    BY OneMoreEnd DEF OrphansBounded
<1> HIDE DEF N, Held
<1>9. Cardinality(Orphans') <= OrphanBudget + N
    BY <1>3, <1>4, <1>5, <1>6, <1>8
<1>10. QED
    BY <1>5, <1>7, <1>9 DEF OrphansBounded

LEMMA NextOrphans ==
    IInv /\ OrphansBounded /\ [Next]_vars => OrphansBounded'
<1> SUFFICES ASSUME IInv, OrphansBounded, [Next]_vars PROVE OrphansBounded'
    OBVIOUS
<1>1. CASE Client
    <2>1. Orphans' \subseteq Orphans
        BY <1>1 DEF Client, RequestEnqueue, RequestReplay, RequestRules, Request,
               Enqueue, DLQReplay, Replayable, SetRules, tables, queueCols, workerVars,
               Orphans, IInv, TypeOK, EngineTypeOK
    <2>2. UNCHANGED <<faults, crashes, shutdowns>>
        BY <1>1 DEF Client, RequestEnqueue, RequestReplay, RequestRules, boundVars
    <2>3. QED
        BY <2>1, <2>2, NoNewOrphan
<1>2. CASE Heartbeat \/ Receive \/ TimePasses \/ Signal \/ StopPool \/ Restart
           \/ UNCHANGED vars
    <2>1. UNCHANGED <<state, held, faults, crashes, shutdowns>>
        BY <1>2 DEF Heartbeat, Receive, TimePasses, Tick, Signal, StopPool, Restart,
               NewEngine, vars, poolVars, engineVars, tables, queueCols, workerVars,
               boundVars
    <2>2. Orphans' \subseteq Orphans
        BY <2>1 DEF Orphans
    <2>3. QED
        BY <2>1, <2>2, NoNewOrphan
<1>3. QED
    BY <1>1, <1>2, WorkerOrphans, ProcessEndOrphans DEF Next

\* No sequence of calls loses a job: reserved rows that nobody holds are no more
\* than the failed operations, and the workers of each process that ended.
THEOREM OrphansAccounted == Spec => []OrphansAccountedFor
<1>1. Init => OrphansBounded
    <2> SUFFICES ASSUME Init PROVE OrphansBounded
        OBVIOUS
    <2>1. Orphans = {}
        BY DEF Init, EngineInit, Orphans
    <2>2. OrphanBudget = 0
        <3>1. Cardinality(Workers) \in Nat
            BY PoolAssumption, FS_CardinalityType
        <3>2. QED
            BY <3>1 DEF Init, OrphanBudget
    <2>3. QED
        BY <2>1, <2>2, FS_EmptySet DEF OrphansBounded
<1>2. OrphansBounded => OrphansAccountedFor
    BY DEF OrphansBounded, OrphanBudget, OrphansAccountedFor
<1>3. QED
    BY <1>1, <1>2, NextOrphans, Invariance, PTL DEF Spec

-----------------------------------------------------------------------------
(* The metrics table and the jobs table *)

\* A context's metrics are the number and the durations of its done rows.
Measured(c) ==
    /\ IsFiniteSet(Done(c))
    /\ jobMetrics[c].count = Cardinality(Done(c))
    /\ jobMetrics[c].sum = SumOf(realCpu, Done(c))

DoneMeasured == \A c \in Contexts : Measured(c)

\* A step that changes neither the executed rows nor the metrics.
LEMMA DoneUntouched ==
    ASSUME DoneMeasured, UNCHANGED <<jobMetrics, realCpu>>,
           \A c \in Contexts : Done(c)' = Done(c)
    PROVE  DoneMeasured'
    BY DEF DoneMeasured, Measured

\* A reserved row that becomes done is one execution more of its context.
LEMMA CompleteCounted ==
    ASSUME IInv, DoneMeasured, NEW i \in Ids, state[i] = "reserved",
           NEW cpu \in Durations, Complete(i, cpu)
    PROVE  DoneMeasured'
<1> USE DEF IInv, TypeOK, EngineTypeOK
<1> DEFINE d == req[i].context
<1>1. i \in Rows /\ req[i] \in Requests /\ d \in Contexts
    BY EngineAssumption DEF Rows
<1>2. /\ UNCHANGED req
      /\ state' = [state EXCEPT ![i] = "done"]
      /\ realCpu' = [realCpu EXCEPT ![i] = cpu]
      /\ jobMetrics' = [jobMetrics EXCEPT ![d] = MovingAverage(jobMetrics[d], cpu)]
    BY DEF Complete, insertCols
<1> HIDE DEF d
<1>3. ASSUME NEW c \in Contexts
      PROVE  Measured(c)'
    <2>1. CASE c = d
        <3>1. Done(c)' = Done(c) \cup {i} /\ i \notin Done(c)
            BY <1>1, <1>2, <2>1 DEF Done, Rows, d
        <3>2. /\ IsFiniteSet(Done(c) \cup {i})
              /\ Cardinality(Done(c) \cup {i}) = Cardinality(Done(c)) + 1
            BY <3>1, FS_AddElement DEF DoneMeasured, Measured
        <3>3. /\ jobMetrics'[c].count = jobMetrics[c].count + 1
              /\ jobMetrics'[c].sum = jobMetrics[c].sum + cpu
            BY <1>1, <1>2, <2>1 DEF MovingAverage
        <3>4. SumOf(realCpu', Done(c) \cup {i}) = SumOf(realCpu, Done(c)) + cpu
            <4>1. i \notin Done(c) /\ Done(c) \subseteq Ids /\ i \in Ids
                BY <3>1 DEF Done, Rows
            <4>2. /\ realCpu'[i] = cpu
                  /\ \A k \in Done(c) : realCpu'[k] = realCpu[k]
                  /\ cpu \in Nat
                BY <1>2, <4>1, EngineAssumption
            <4>3. Summable(realCpu', Done(c) \cup {i}) /\ Summable(realCpu, Done(c))
                BY <3>2, <4>1, <4>2 DEF Summable, DoneMeasured, Measured
            <4>4. SumOf(realCpu', Done(c) \cup {i}) = SumOf(realCpu', Done(c)) + realCpu'[i]
                BY <4>1, <4>3, SumOfMore
            <4>5. SumOf(realCpu, Done(c)) = SumOf(realCpu', Done(c))
                BY <4>2, <4>3, SumOfEqual
            <4>6. QED
                BY <4>2, <4>4, <4>5
        <3>5. QED
            BY <3>1, <3>2, <3>3, <3>4 DEF DoneMeasured, Measured
    <2>2. CASE c # d
        <3>1. Done(c)' = Done(c)
            BY <1>1, <1>2, <2>2 DEF Done, Rows, d
        <3>2. jobMetrics'[c] = jobMetrics[c]
            BY <1>1, <1>2, <2>2
        <3>3. SumOf(realCpu', Done(c)) = SumOf(realCpu, Done(c))
            <4>1. i \notin Done(c) /\ Done(c) \subseteq Ids
                BY DEF Done, Rows
            <4>2. \A k \in Done(c) : realCpu[k] = realCpu'[k]
                BY <1>2, <4>1
            <4>3. Summable(realCpu, Done(c))
                BY <4>1 DEF Summable, DoneMeasured, Measured
            <4>4. QED
                BY <4>2, <4>3, SumOfEqual
        <3>4. QED
            BY <3>1, <3>2, <3>3 DEF DoneMeasured, Measured
    <2>3. QED
        BY <2>1, <2>2
<1>4. QED
    BY <1>3 DEF DoneMeasured

LEMMA NextMeasured ==
    IInv /\ DoneMeasured /\ [Next]_vars => DoneMeasured'
<1> SUFFICES ASSUME IInv, DoneMeasured, [Next]_vars PROVE DoneMeasured'
    OBVIOUS
<1> USE DEF IInv, TypeOK, EngineTypeOK, insertCols, queueCols, resultCols, tables,
        engineVars
<1>1. ASSUME UNCHANGED <<state, req, jobMetrics, realCpu>>
      PROVE  DoneMeasured'
    BY <1>1, DoneUntouched DEF Done, Rows
<1>2. ASSUME NEW w \in Workers, Worker(w)
      PROVE  DoneMeasured'
    <2>1. ASSUME NEW cpu \in Durations, CompleteJob(w, cpu)
          PROVE  DoneMeasured'
        <3>1. held[w] \in Ids /\ state[held[w]] = "reserved"
            BY <2>1, HeldRow DEF CompleteJob, Report, Goto
        <3>2. QED
            BY <2>1, <3>1, CompleteCounted DEF CompleteJob
    <2>2. CASE FailJob(w)
        <3>1. held[w] \in Ids /\ held[w] \in Rows /\ state[held[w]] = "reserved"
            BY <2>2, HeldRow DEF FailJob, Report, Goto
        <3>2. UNCHANGED <<req, jobMetrics, realCpu>>
            BY <2>2 DEF FailJob, Fail
        <3>3. /\ state'[held[w]] \in {"pending", "dead"}
              /\ \A k \in Ids : k # held[w] => state'[k] = state[k]
            BY <2>2, <3>1 DEF FailJob, Fail
        <3>4. \A c \in Contexts : Done(c)' = Done(c)
            BY <3>1, <3>2, <3>3 DEF Done, Rows
        <3>5. QED
            BY <3>2, <3>4, DoneUntouched
    <2>3. ASSUME NEW i \in Ids, PickJob(w, i)
          PROVE  DoneMeasured'
        <3>1. UNCHANGED <<req, jobMetrics, realCpu>>
            BY <2>3 DEF PickJob, SelectJob
        <3>2. /\ state[i] = "pending" /\ state'[i] = "reserved"
              /\ \A k \in Ids : k # i => state'[k] = state[k]
            BY <2>3 DEF PickJob, SelectJob, Eligible
        <3>3. \A c \in Contexts : Done(c)' = Done(c)
            BY <3>1, <3>2 DEF Done, Rows
        <3>4. QED
            BY <3>1, <3>3, DoneUntouched
    <2>4. CASE StartReserve(w) \/ FindNothing(w) \/ ReserveError(w) \/ SendBusy(w)
               \/ ReportError(w) \/ SendIdle(w) \/ StopWorker(w)
        BY <1>1, <2>4 DEF StartReserve, RecomputePriorities, FindNothing,
               ReserveError, NoReservation, SendBusy, ReportError, SendIdle, StopWorker
    <2>5. QED
        BY <1>2, <2>1, <2>2, <2>3, <2>4 DEF Worker
<1>3. ASSUME NEW i \in Ids, NEW q \in Requests, RequestEnqueue(i, q)
      PROVE  DoneMeasured'
    <2>1. /\ UNCHANGED <<jobMetrics, realCpu>>
          /\ state[i] = "absent" /\ state'[i] = "pending"
          /\ \A k \in Ids : k # i => state'[k] = state[k] /\ req'[k] = req[k]
        BY <1>3 DEF RequestEnqueue, Enqueue, Insertable, Rows
    <2>2. \A c \in Contexts : Done(c)' = Done(c)
        BY <2>1 DEF Done, Rows
    <2>3. QED
        BY <2>1, <2>2, DoneUntouched
<1>4. CASE RequestReplay
    <2>1. UNCHANGED <<req, jobMetrics, realCpu>>
        BY <1>4 DEF RequestReplay, DLQReplay
    <2>2. \A k \in Ids : \/ state'[k] = state[k]
                         \/ state[k] = "dead" /\ state'[k] = "pending"
        BY <1>4 DEF RequestReplay, DLQReplay, Replayable
    <2>3. \A c \in Contexts : Done(c)' = Done(c)
        BY <2>1, <2>2 DEF Done, Rows
    <2>4. QED
        BY <2>1, <2>3, DoneUntouched
<1>5. CASE \/ \E r \in RuleSets : RequestRules(r)
           \/ Heartbeat \/ Receive \/ TimePasses \/ Signal \/ StopPool
           \/ Shutdown \/ Crash \/ Restart \/ UNCHANGED vars
    BY <1>1, <1>5 DEF RequestRules, SetRules, Heartbeat, Receive, TimePasses, Tick,
           Signal, StopPool, Shutdown, Crash, ProcessEnds, Restart, NewEngine, vars,
           poolVars
<1>6. QED
    BY <1>2, <1>3, <1>4, <1>5 DEF Next, Client

LEMMA MetricsInvariance == Spec => []DoneMeasured
<1>1. Init => DoneMeasured
    <2> SUFFICES ASSUME Init, NEW c \in Contexts PROVE Measured(c)
        BY DEF DoneMeasured
    <2>1. Done(c) = {} /\ jobMetrics[c].count = 0 /\ jobMetrics[c].sum = 0
        BY DEF Init, EngineInit, Done, Rows, NoMetric
    <2>2. QED
        BY <2>1, FS_EmptySet, SumOfEmpty DEF Measured
<1>2. QED
    BY <1>1, NextMeasured, Invariance, PTL DEF Spec

\* The execution counts of job_metrics are the jobs done: each counted once,
\* whatever fails, ends or restarts in between.
THEOREM EveryExecutionCounted == Spec => []ExecutionsCounted
<1>1. DoneMeasured => ExecutionsCounted
    BY DEF DoneMeasured, Measured, ExecutionsCounted
<1>2. QED
    BY <1>1, MetricsInvariance, PTL

\* And so are the durations: the moving average of a context is that of its
\* done rows, however many they are.
THEOREM MetricsMatch == Spec => []MetricsMatchTable
<1>1. DoneMeasured => MetricsMatchTable
    <2> SUFFICES ASSUME DoneMeasured
                 PROVE  /\ ExecutionsCounted
                        /\ \A c \in Contexts :
                              jobMetrics[c].sum = MapThenSumSet(LAMBDA i : realCpu[i], Done(c))
        BY DEF MetricsMatchTable
    <2>1. ExecutionsCounted
        BY DEF DoneMeasured, Measured, ExecutionsCounted
    <2>2. ASSUME NEW c \in Contexts
          PROVE  jobMetrics[c].sum = MapThenSumSet(LAMBDA i : realCpu[i], Done(c))
        <3>1. jobMetrics[c].sum = SumOf(realCpu, Done(c))
            BY DEF DoneMeasured, Measured
        <3>2. QED
            BY <3>1 DEF SumOf, MapThenSumSet, MapThenFoldSet
    <2>3. QED
        BY <2>1, <2>2
<1>2. QED
    BY <1>1, MetricsInvariance, PTL

=============================================================================
