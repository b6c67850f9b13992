-------------------------- MODULE RefinementProofs --------------------------
(***************************************************************************)
(* WorkerPool implements TaskQueue, for any sets of workers, ids and       *)
(* requests and any bounds: the initial state maps to the empty queue, and *)
(* every step to a step of the queue or to none.                           *)
(*                                                                         *)
(* Three invariants carry it.  A worker holds a reserved row and no other  *)
(* has it (IInv), so a report is the taker's.  Attempts are counted right  *)
(* (AttemptsCounted), so the comparison with max_retries gives up at the   *)
(* last try.  Payloads are unique over all rows (UniquePayloads), so a     *)
(* replay never revives a double.                                          *)
(***************************************************************************)
EXTENDS RetryProofs, PoolRefinement

\* The taker of a job is the worker that holds it.
TakersHold ==
    /\ TakenBy \in [Ids -> Workers \cup {Nobody}]
    /\ \A i \in Ids, w \in Workers : TakenBy[i] = w <=> held[w] = i

LEMMA TakersAreHolders == IInv => TakersHold
<1> SUFFICES ASSUME IInv PROVE TakersHold
    OBVIOUS
<1>1. ASSUME NEW i \in Ids
      PROVE  /\ TakenBy[i] \in Workers \cup {Nobody}
             /\ \A w \in Workers : TakenBy[i] = w <=> held[w] = i
    <2>1. CASE Holders(i) = {}
        BY <2>1, RefinementAssumption DEF TakenBy, Holders
    <2>2. CASE Holders(i) # {}
        <3>1. PICK v \in Workers : held[v] = i
            BY <2>2 DEF Holders
        <3>2. TakenBy[i] = CHOOSE w \in Workers : held[w] = i
            BY <2>2 DEF TakenBy
        <3>3. TakenBy[i] \in Workers /\ held[TakenBy[i]] = i
            BY <3>1, <3>2
        <3>4. \A w \in Workers : held[w] = i => w = TakenBy[i]
            BY <3>3, PoolAssumption DEF IInv, ExclusiveReservation
        <3>5. QED
            BY <3>3, <3>4
    <2>3. QED
        BY <2>1, <2>2
<1>2. TakenBy = [i \in Ids |-> TakenBy[i]]
    BY DEF TakenBy
<1>3. QED
    BY <1>1, <1>2 DEF TakersHold

LEMMA TakersAreHoldersNext == IInv' => TakersHold'
    BY TakersAreHolders, PTL

\* A job that is held by the same workers has the same taker.
LEMMA SameTaker ==
    ASSUME IInv, IInv', NEW k \in Ids,
           \A v \in Workers : held'[v] = k <=> held[v] = k
    PROVE  TakenBy'[k] = TakenBy[k]
<1>1. TakersHold /\ TakersHold'
    BY TakersAreHolders, TakersAreHoldersNext
<1>2. CASE \E v \in Workers : held[v] = k
    BY <1>1, <1>2 DEF TakersHold
<1>3. CASE ~ \E v \in Workers : held[v] = k
    <2>1. TakenBy[k] = Nobody /\ TakenBy'[k] = Nobody
        BY <1>1, <1>3 DEF TakersHold
    <2>2. QED
        BY <2>1
<1>4. QED
    BY <1>2, <1>3

LEMMA RetriesAskedFor ==
    ASSUME IInv, NEW i \in Rows
    PROVE  req[i].maxRetries \in Int
    BY RequestTypes DEF IInv, TypeOK, EngineTypeOK

\* A reserved row has a try left.
LEMMA TryLeft ==
    ASSUME IInv, AttemptsCounted, NEW i \in Rows, state[i] = "reserved"
    PROVE  /\ retries[i] \in Nat /\ Allowed(i) \in Nat
           /\ retries[i] < Allowed(i)
<1>1. i \in Ids
    BY DEF Rows
<1>2. /\ retries[i] <= Allowed(i)
      /\ retries[i] = Allowed(i) <=> state[i] = "dead"
    BY <1>1 DEF AttemptsCounted, RowBudget
<1>3. retries[i] \in Nat /\ Allowed(i) \in Nat
    BY <1>1, CountersType, AllowedType
<1>4. QED
    BY <1>2, <1>3

LEMMA StageValues ==
    /\ StageOf("absent") = "none"
    /\ StageOf("pending") = "waiting"
    /\ StageOf("reserved") = "taken"
    /\ StageOf("done") = "finished"
    /\ StageOf("dead") = "given_up"
    BY Zenon DEF StageOf

\* A step that changes none of these is no step of the queue.
LEMMA Unseen ==
    ASSUME UNCHANGED state, UNCHANGED req, UNCHANGED retries, UNCHANGED held
    PROVE  UNCHANGED Queue!queueVars
<1>1. UNCHANGED Stages /\ UNCHANGED Sent /\ UNCHANGED Limits
    BY DEF Stages, Sent, Limits, Rows, Allowed
<1>2. UNCHANGED TakenBy
    BY DEF TakenBy, Holders
<1>3. QED
    BY <1>1, <1>2 DEF Queue!queueVars

\* A step that keeps the requests and the set of rows keeps what was sent.
LEMMA SameJobs ==
    ASSUME UNCHANGED req, Rows' = Rows
    PROVE  UNCHANGED Sent /\ UNCHANGED Limits
    BY DEF Sent, Limits, Allowed

-----------------------------------------------------------------------------
(* The workers' steps *)

LEMMA PickTakes ==
    ASSUME IInv, IInv', NEW w \in Workers, NEW i \in Ids, PickJob(w, i)
    PROVE  Queue!Take(i, w)
<1> USE DEF IInv, TypeOK, EngineTypeOK
<1>1. /\ state[i] = "pending"
      /\ state' = [state EXCEPT ![i] = "reserved"]
      /\ UNCHANGED req /\ UNCHANGED retries
    BY DEF PickJob, SelectJob, Eligible, insertCols
<1>2. /\ held[w] = NoJob /\ held' = [held EXCEPT ![w] = i]
      /\ \A v \in Workers : held[v] # i
    BY <1>1 DEF PickJob, Goto, ExclusiveReservation
<1>3. UNCHANGED Sent /\ UNCHANGED Limits
    BY <1>1, SameJobs DEF Rows
<1>4. /\ Stages[i] = "waiting"
      /\ Stages' = [Stages EXCEPT ![i] = "taken"]
    BY <1>1, StageValues DEF Stages
<1>5. \A k \in Ids : TakenBy[k] # w
    BY <1>2, TakersAreHolders, PoolAssumption DEF TakersHold
<1>6. TakenBy' = [TakenBy EXCEPT ![i] = w]
    <2>1. ASSUME NEW k \in Ids, k # i
          PROVE  TakenBy'[k] = TakenBy[k]
        BY <1>2, <2>1, SameTaker, PoolAssumption
    <2>2. TakenBy'[i] = w
        BY <1>2, TakersAreHoldersNext DEF TakersHold
    <2>3. QED
        BY <2>1, <2>2, TakersAreHolders, TakersAreHoldersNext DEF TakersHold
<1>7. QED
    BY <1>1, <1>3, <1>4, <1>5, <1>6 DEF Queue!Take

\* A worker that reports gives its job back, or loses it.
LEMMA ReportReturns ==
    ASSUME IInv, IInv', NEW w \in Workers, Report(w), NEW i \in Ids, held[w] = i
    PROVE  /\ state[i] = "reserved"
           /\ TakenBy[i] = w
           /\ TakenBy' = [TakenBy EXCEPT ![i] = Nobody]
           /\ \A k \in Ids : k # i => TakenBy[k] # w
<1> USE DEF IInv, TypeOK
<1>1. state[i] = "reserved"
    BY HeldRow DEF Report, Goto
<1>2. held' = [held EXCEPT ![w] = NoJob]
    BY DEF Report
<1>3. /\ TakenBy[i] = w
      /\ \A k \in Ids : k # i => TakenBy[k] # w
    BY TakersAreHolders DEF TakersHold
<1>4. TakenBy'[i] = Nobody
    BY <1>2, TakersAreHoldersNext, PoolAssumption DEF TakersHold, ExclusiveReservation
<1>5. ASSUME NEW k \in Ids, k # i
      PROVE  TakenBy'[k] = TakenBy[k]
    BY <1>2, <1>5, SameTaker, PoolAssumption
<1>6. TakenBy' = [TakenBy EXCEPT ![i] = Nobody]
    BY <1>4, <1>5, TakersAreHolders, TakersAreHoldersNext DEF TakersHold
<1>7. QED
    BY <1>1, <1>3, <1>6

LEMMA CompleteFinishes ==
    ASSUME IInv, IInv', NEW w \in Workers, NEW cpu \in Durations,
           CompleteJob(w, cpu), NEW i \in Ids, held[w] = i
    PROVE  Queue!Finish(i)
<1> USE DEF IInv, TypeOK, EngineTypeOK
<1>1. /\ state[i] = "reserved" /\ TakenBy[i] = w
      /\ TakenBy' = [TakenBy EXCEPT ![i] = Nobody]
    BY ReportReturns DEF CompleteJob
<1>2. /\ state' = [state EXCEPT ![i] = "done"]
      /\ UNCHANGED req /\ UNCHANGED retries
    BY DEF CompleteJob, Complete, insertCols
<1>3. UNCHANGED Sent /\ UNCHANGED Limits
    BY <1>1, <1>2, SameJobs DEF Rows
<1>4. /\ Stages[i] = "taken"
      /\ Stages' = [Stages EXCEPT ![i] = "finished"]
    BY <1>1, <1>2, StageValues DEF Stages
<1>5. QED
    BY <1>1, <1>2, <1>3, <1>4, RefinementAssumption DEF Queue!Finish, Queue!GiveBack

LEMMA FailRetriesOrGivesUp ==
    ASSUME IInv, IInv', AttemptsCounted, NEW w \in Workers, FailJob(w),
           NEW i \in Ids, held[w] = i
    PROVE  Queue!Retry(i) \/ Queue!GiveUp(i)
<1> USE DEF IInv, TypeOK, EngineTypeOK
<1> DEFINE n == retries[i] + 1
<1>1. /\ state[i] = "reserved" /\ i \in Rows /\ TakenBy[i] = w
      /\ TakenBy' = [TakenBy EXCEPT ![i] = Nobody]
    BY ReportReturns DEF FailJob, Rows
<1>2. /\ UNCHANGED req
      /\ retries' = [retries EXCEPT ![i] = n]
      /\ \/ n <= req[i].maxRetries /\ state' = [state EXCEPT ![i] = "pending"]
         \/ ~(n <= req[i].maxRetries) /\ state' = [state EXCEPT ![i] = "dead"]
    BY DEF FailJob, Fail, RetriesLeft, insertCols
<1>3. UNCHANGED Sent /\ UNCHANGED Limits
    BY <1>1, <1>2, SameJobs DEF Rows
<1>4. /\ retries[i] \in Nat /\ Allowed(i) \in Nat /\ Limits[i] = Allowed(i)
      /\ req[i].maxRetries \in Int /\ retries[i] < Allowed(i)
    BY <1>1, TryLeft, RetriesAskedFor DEF Limits
<1>5. Stages[i] = "taken"
    BY <1>1, StageValues DEF Stages
<1>6. CASE n <= req[i].maxRetries
    <2>1. Stages' = [Stages EXCEPT ![i] = "waiting"]
        BY <1>1, <1>2, <1>6, StageValues DEF Stages
    <2>2. n < Limits[i]
        BY <1>4, <1>6 DEF Allowed, AllowedTries
    <2>3. QED
        BY <1>1, <1>2, <1>3, <1>5, <2>1, <2>2, RefinementAssumption
        DEF Queue!Retry, Queue!GiveBack, Queue!FailedTry
<1>7. CASE ~(n <= req[i].maxRetries)
    <2>1. Stages' = [Stages EXCEPT ![i] = "given_up"]
        BY <1>1, <1>2, <1>7, StageValues DEF Stages
    <2>2. n = Limits[i]
        BY <1>4, <1>7 DEF Allowed, AllowedTries
    <2>3. QED
        BY <1>1, <1>2, <1>3, <1>5, <2>1, <2>2, RefinementAssumption
        DEF Queue!GiveUp, Queue!GiveBack, Queue!FailedTry
<1>8. QED
    BY <1>6, <1>7

-----------------------------------------------------------------------------
(* Requests, faults and the end of the process *)

\* A taker forgets its job, or takers disappear.
LEMMA TakersVanish ==
    ASSUME IInv, IInv', NEW lost \in SUBSET Workers,
           UNCHANGED state, UNCHANGED req, UNCHANGED retries,
           held' = [w \in Workers |-> IF w \in lost THEN NoJob ELSE held[w]]
    PROVE  Queue!Vanish(lost)
<1>1. UNCHANGED Stages /\ UNCHANGED Sent /\ UNCHANGED Limits
    BY DEF Stages, Sent, Limits, Rows, Allowed
<1>2. TakersHold /\ TakersHold'
    BY TakersAreHolders, TakersAreHoldersNext
<1>3. ASSUME NEW i \in Ids
      PROVE  TakenBy'[i] = IF TakenBy[i] \in lost THEN Nobody ELSE TakenBy[i]
    <2>1. CASE TakenBy[i] \in lost
        <3>1. held[TakenBy[i]] = i
            BY <1>2, <2>1 DEF TakersHold
        <3>2. \A v \in Workers : held[v] = i => v = TakenBy[i]
            BY <1>2 DEF TakersHold
        <3>3. \A v \in Workers : held'[v] # i
            BY <2>1, <3>2, PoolAssumption
        <3>4. QED
            BY <1>2, <2>1, <3>3 DEF TakersHold
    <2>2. CASE TakenBy[i] \notin lost
        <3>1. ASSUME NEW v \in Workers
              PROVE  held'[v] = i <=> held[v] = i
            BY <1>2, <2>2, PoolAssumption DEF TakersHold
        <3>2. QED
            BY <2>2, <3>1, SameTaker
    <2>3. QED
        BY <2>1, <2>2
<1>4. TakenBy' = [i \in Ids |-> IF TakenBy[i] \in lost THEN Nobody ELSE TakenBy[i]]
    BY <1>2, <1>3 DEF TakersHold
<1>5. QED
    BY <1>1, <1>4 DEF Queue!Vanish

LEMMA EnqueueSubmits ==
    ASSUME IInv, IInv', AttemptsCounted, NEW i \in Ids, NEW q \in Requests,
           RequestEnqueue(i, q)
    PROVE  Queue!Submit(i, q.payload, AllowedTries(q))
<1> USE DEF IInv, TypeOK, EngineTypeOK
<1>1. /\ state[i] = "absent"
      /\ \A k \in Rows : req[k].payload # q.payload
      /\ state' = [state EXCEPT ![i] = "pending"]
      /\ req' = [req EXCEPT ![i] = q]
      /\ retries' = [retries EXCEPT ![i] = 0]
      /\ UNCHANGED held
    BY DEF RequestEnqueue, Request, Enqueue, Insertable, Rows, workerVars
<1>2. UNCHANGED retries
    BY <1>1 DEF AttemptsCounted, Blank
<1>3. /\ Stages[i] = "none"
      /\ Stages' = [Stages EXCEPT ![i] = "waiting"]
    BY <1>1, StageValues DEF Stages
<1>4. \A k \in Ids : Queue!Live(k) => Sent[k] # q.payload
    BY <1>1, StageValues DEF Queue!Live, Stages, Sent, Rows
<1>5. /\ i \in Rows' /\ \A k \in Ids : k # i => (k \in Rows' <=> k \in Rows)
    BY <1>1 DEF Rows
<1>6. Sent' = [Sent EXCEPT ![i] = q.payload]
    <2>1. req'[i] = q /\ \A k \in Ids : k # i => req'[k] = req[k]
        BY <1>1
    <2>2. QED
        BY <1>5, <2>1 DEF Sent
<1>7. Limits' = [Limits EXCEPT ![i] = AllowedTries(q)]
    <2>1. Allowed(i)' = AllowedTries(q)
        BY <1>1 DEF Allowed
    <2>2. \A k \in Ids : k # i => Allowed(k)' = Allowed(k)
        BY <1>1 DEF Allowed
    <2>3. QED
        BY <1>5, <2>1, <2>2 DEF Limits
<1>8. UNCHANGED TakenBy
    BY <1>1 DEF TakenBy, Holders
<1>9. QED
    BY <1>2, <1>3, <1>4, <1>6, <1>7, <1>8 DEF Queue!Submit

LEMMA ReplayRevives ==
    ASSUME IInv, IInv', StoredStates, UniquePayloads, RequestReplay
    PROVE  Queue!Revive
<1>1. /\ state' = [i \in Ids |-> IF state[i] = "dead" THEN "pending" ELSE state[i]]
      /\ retries' = [i \in Ids |-> IF state[i] = "dead" THEN 0 ELSE retries[i]]
      /\ UNCHANGED req /\ UNCHANGED held
    BY DEF RequestReplay, Request, DLQReplay, Replayable, insertCols, workerVars
<1>2. UNCHANGED Sent /\ UNCHANGED Limits
    BY <1>1, SameJobs DEF Rows
<1>3. UNCHANGED TakenBy
    BY <1>1 DEF TakenBy, Holders
<1>4. ASSUME NEW i \in Ids
      PROVE  /\ Queue!GivenUp(i) <=> state[i] = "dead"
             /\ Queue!Live(i) => i \in Rows
    BY StageValues DEF Queue!GivenUp, Queue!Live, Stages, StoredStates, Rows
<1>5. \A i, k \in Ids : /\ Queue!GivenUp(i)
                        /\ Queue!GivenUp(k) \/ Queue!Live(k)
                        /\ Sent[i] = Sent[k]
                        => i = k
    BY <1>4 DEF Sent, UniquePayloads, Rows
<1>6. Stages' = [i \in Ids |-> IF Queue!GivenUp(i) THEN "waiting" ELSE Stages[i]]
    <2>1. ASSUME NEW i \in Ids
          PROVE  StageOf(state'[i])
                    = IF Queue!GivenUp(i) THEN "waiting" ELSE StageOf(state[i])
        BY <1>1, <1>4, StageValues
    <2>2. QED
        BY <2>1 DEF Stages
<1>7. retries' = [i \in Ids |-> IF Queue!GivenUp(i) THEN 0 ELSE retries[i]]
    BY <1>1, <1>4
<1>8. QED
    BY <1>2, <1>3, <1>5, <1>6, <1>7 DEF Queue!Revive

-----------------------------------------------------------------------------
(* All steps *)

LEMMA InitQueue == Init => Queue!Init
<1> SUFFICES ASSUME Init PROVE Queue!Init
    OBVIOUS
<1>1. Rows = {} /\ \A i \in Ids : Holders(i) = {}
    BY PoolAssumption DEF Init, EngineInit, Rows, Holders
<1>2. Stages = [i \in Ids |-> "none"]
    BY StageValues DEF Init, EngineInit, Stages
<1>3. Sent = [i \in Ids |-> NoPayload] /\ Limits = [i \in Ids |-> 0]
    BY <1>1 DEF Sent, Limits
<1>4. TakenBy = [i \in Ids |-> Nobody]
    BY <1>1 DEF TakenBy
<1>5. retries = [i \in Ids |-> 0]
    BY DEF Init, EngineInit
<1>6. QED
    BY <1>2, <1>3, <1>4, <1>5 DEF Queue!Init

LEMMA WorkerSteps ==
    ASSUME IInv, IInv', AttemptsCounted, NEW w \in Workers, Worker(w)
    PROVE  [Queue!Next]_Queue!queueVars
<1>1. CASE StartReserve(w) \/ FindNothing(w) \/ ReserveError(w) \/ SendBusy(w)
           \/ SendIdle(w) \/ StopWorker(w)
    BY <1>1, Unseen DEF StartReserve, RecomputePriorities, FindNothing,
       ReserveError, NoReservation, SendBusy, SendIdle, StopWorker, engineVars,
       tables, insertCols, queueCols
<1>2. ASSUME NEW i \in Ids, PickJob(w, i)
      PROVE  Queue!Next
    BY <1>2, PickTakes DEF Queue!Next
<1>3. ASSUME Report(w)
      PROVE  held[w] \in Ids
    BY <1>3, HeldRow DEF Report, Goto
<1>4. ASSUME NEW cpu \in Durations, CompleteJob(w, cpu)
      PROVE  Queue!Next
    <2>1. Queue!Finish(held[w])
        BY <1>3, <1>4, CompleteFinishes DEF CompleteJob
    <2>2. QED
        BY <1>3, <1>4, <2>1 DEF CompleteJob, Queue!Next
<1>5. CASE FailJob(w)
    <2>1. Queue!Retry(held[w]) \/ Queue!GiveUp(held[w])
        BY <1>3, <1>5, FailRetriesOrGivesUp DEF FailJob
    <2>2. QED
        BY <1>3, <1>5, <2>1 DEF FailJob, Queue!Next
<1>6. CASE ReportError(w)
    <2>1. /\ UNCHANGED state /\ UNCHANGED req /\ UNCHANGED retries
          /\ held' = [v \in Workers |-> IF v \in {w} THEN NoJob ELSE held[v]]
        BY <1>6 DEF ReportError, Report, engineVars, tables, insertCols,
           queueCols, IInv, TypeOK
    <2>2. Queue!Vanish({w})
        BY <2>1, TakersVanish
    <2>3. QED
        BY <2>2 DEF Queue!Next
<1>7. QED
    BY <1>1, <1>2, <1>4, <1>5, <1>6 DEF Worker

LEMMA NextQueue ==
    IInv /\ IInv' /\ AttemptsCounted /\ UniquePayloads /\ StoredStates /\ [Next]_vars
        => [Queue!Next]_Queue!queueVars
<1> SUFFICES ASSUME IInv, IInv', AttemptsCounted, UniquePayloads, StoredStates,
                    [Next]_vars
             PROVE  [Queue!Next]_Queue!queueVars
    OBVIOUS
<1>1. CASE \E w \in Workers : Worker(w)
    BY <1>1, WorkerSteps
<1>2. ASSUME NEW i \in Ids, NEW q \in Requests, RequestEnqueue(i, q)
      PROVE  Queue!Next
    <2>1. q.payload \in Payloads
        BY EngineAssumption
    <2>2. AllowedTries(q) \in {AllowedTries(r) : r \in Requests}
        OBVIOUS
    <2>3. Queue!Submit(i, q.payload, AllowedTries(q))
        BY <1>2, EnqueueSubmits
    <2>4. QED
        BY <2>1, <2>2, <2>3 DEF Queue!Next
<1>3. CASE RequestReplay
    BY <1>3, ReplayRevives DEF Queue!Next
<1>4. CASE \E r \in RuleSets : RequestRules(r)
    BY <1>4, Unseen DEF RequestRules, Request, SetRules, tables, insertCols,
       queueCols, workerVars
<1>5. CASE Heartbeat \/ Receive \/ TimePasses \/ Signal \/ StopPool \/ Restart
           \/ UNCHANGED vars
    BY <1>5, Unseen DEF Heartbeat, Receive, TimePasses, Tick, Signal, StopPool,
       Restart, NewEngine, vars, poolVars, engineVars, tables, insertCols,
       queueCols, workerVars
<1>6. CASE Shutdown \/ Crash
    <2>1. /\ UNCHANGED state /\ UNCHANGED req /\ UNCHANGED retries
          /\ held' = [w \in Workers |-> IF w \in Workers THEN NoJob ELSE held[w]]
        BY <1>6 DEF Shutdown, Crash, ProcessEnds, engineVars, tables,
           insertCols, queueCols
    <2>2. Queue!Vanish(Workers)
        BY <2>1, TakersVanish
    <2>3. QED
        BY <2>2 DEF Queue!Next
<1>7. QED
    BY <1>1, <1>2, <1>3, <1>4, <1>5, <1>6 DEF Next, Client

\* Whatever the workers, the requests, the faults and the ends of the process
\* do to the tables, those who use the queue see the promised one: only the
\* taker of a job reports on it, a job is given up after its last try and not
\* before, and no payload is live twice.
THEOREM PoolImplementsTaskQueue == Spec => ImplementsTaskQueue
<1>1. IInv /\ IInv' /\ AttemptsCounted /\ UniquePayloads /\ StoredStates /\ [Next]_vars
        => [Queue!Next]_Queue!queueVars
    BY NextQueue
<1>2. QED
    BY <1>1, InitQueue, AttemptsInvariant, UniquePayloadsInvariant,
       StoredStatesInvariant, PTL
    DEF Spec, ImplementsTaskQueue, Queue!Spec

=============================================================================
