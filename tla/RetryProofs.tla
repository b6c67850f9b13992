----------------------------- MODULE RetryProofs -----------------------------
(***************************************************************************)
(* The accounting of attempts and of the time between them: RetryBudget    *)
(* and RetriesDue hold in every reachable state, and BackoffSpacing of     *)
(* every step, for any numbers of retries, workers, replays, faults and    *)
(* crashes.                                                                *)
(*                                                                         *)
(* RetryBudget is not inductive: it bounds the executions of a row but     *)
(* does not say which of them its retry counter has seen.  RowBudget does: *)
(* all but the one that is going on, was the last, or was lost with its    *)
(* worker.                                                                 *)
(***************************************************************************)
EXTENDS WorkerPoolProofs

\* A worker has reserved the row and not started its handler.
Announced(i) == \E w \in Workers : held[w] = i /\ pc[w] = "announcing"

\* Executions of the row that its retry counter has not seen.
Started(i) ==
    IF state[i] \in {"reserved", "done"} /\ ~Announced(i) THEN 1 ELSE 0

RowBudget(i) ==
    /\ retries[i] <= Allowed(i)
    /\ retries[i] = Allowed(i) <=> state[i] = "dead"
    /\ runs[i] <= replays * Allowed(i) + retries[i] + Started(i)

\* An id without a row has no past.
Blank(i) == retries[i] = 0 /\ runs[i] = 0

AttemptsCounted ==
    \A i \in Ids : IF state[i] = "absent" THEN Blank(i) ELSE RowBudget(i)

-----------------------------------------------------------------------------

LEMMA AllowedType ==
    ASSUME IInv, NEW i \in Rows
    PROVE  Allowed(i) \in Nat \ {0}
<1>1. req[i].maxRetries \in Int
    BY RequestTypes DEF IInv, TypeOK, EngineTypeOK
<1>2. QED
    BY <1>1 DEF Allowed, AllowedTries

LEMMA CountersType ==
    ASSUME IInv, NEW i \in Ids
    PROVE  retries[i] \in Nat /\ runs[i] \in Nat /\ replays \in Nat
    BY PoolAssumption DEF IInv, TypeOK, EngineTypeOK

LEMMA ProductStep ==
    ASSUME NEW a \in Nat, NEW b \in Nat
    PROVE  (a + 1) * b = a * b + b /\ a * b \in Nat
    OBVIOUS

\* A row that a step leaves alone stays within its budget, also when the worker
\* that announced it goes away.
LEMMA RowUntouched ==
    ASSUME IInv, NEW i \in Ids,
           IF state[i] = "absent" THEN Blank(i) ELSE RowBudget(i),
           state'[i] = state[i], retries'[i] = retries[i], runs'[i] = runs[i],
           req'[i] = req[i], replays' = replays,
           Announced(i)' => Announced(i)
    PROVE  (IF state[i] = "absent" THEN Blank(i) ELSE RowBudget(i))'
<1>1. CASE state[i] = "absent"
    BY <1>1 DEF Blank
<1>2. CASE state[i] # "absent"
    <2>1. Allowed(i)' = Allowed(i)
        BY DEF Allowed
    <2>2. Started(i) \in {0, 1} /\ Started(i)' \in {0, 1} /\ Started(i) <= Started(i)'
        BY DEF Started
    <2>3. Allowed(i) \in Nat
        BY <1>2, AllowedType DEF Rows
    <2>4. replays * Allowed(i) \in Nat
        BY <2>3, CountersType, ProductStep
    <2>5. RowBudget(i)'
        BY <1>2, <2>1, <2>2, <2>4, CountersType DEF RowBudget
    <2>6. QED
        BY <1>2, <2>5
<1>3. QED
    BY <1>1, <1>2

-----------------------------------------------------------------------------
(* The steps that touch the accounting, one lemma each *)

\* The accounting of one row.
Accounted(i) == IF state[i] = "absent" THEN Blank(i) ELSE RowBudget(i)

LEMMA PickAttempts ==
    ASSUME IInv, AttemptsCounted, NEW w \in Workers, NEW i \in Ids, PickJob(w, i)
    PROVE  AttemptsCounted'
<1> USE DEF IInv, TypeOK, EngineTypeOK
<1>1. ASSUME NEW k \in Ids, k # i
      PROVE  Accounted(k)'
    <2>1. Announced(k)' => Announced(k)
        BY <1>1 DEF PickJob, Goto, Announced
    <2>2. /\ state'[k] = state[k] /\ retries'[k] = retries[k]
          /\ runs'[k] = runs[k] /\ req'[k] = req[k] /\ replays' = replays
        BY <1>1 DEF PickJob, SelectJob, insertCols, boundVars, history
    <2>3. QED
        BY <2>1, <2>2, RowUntouched DEF AttemptsCounted, Accounted
<1>2. Accounted(i)'
    <2>1. state[i] = "pending" /\ state'[i] = "reserved"
        BY DEF PickJob, SelectJob, Eligible
    <2>2. RowBudget(i) /\ Started(i) = 0
        BY <2>1 DEF AttemptsCounted, Started
    <2>3. Announced(i)'
        BY DEF PickJob, Goto, Announced
    <2>4. Started(i)' = 0
        BY <2>3 DEF Started
    <2>5. /\ retries'[i] = retries[i] /\ runs'[i] = runs[i]
          /\ req'[i] = req[i] /\ replays' = replays
        BY DEF PickJob, SelectJob, insertCols, boundVars, history
    <2>6. QED
        BY <2>1, <2>2, <2>4, <2>5 DEF Accounted, RowBudget, Allowed
<1>3. QED
    BY <1>1, <1>2 DEF AttemptsCounted, Accounted

LEMMA SendBusyAttempts ==
    ASSUME IInv, AttemptsCounted, NEW w \in Workers, SendBusy(w),
           NEW i \in Ids, held[w] = i
    PROVE  AttemptsCounted'
<1> USE DEF IInv, TypeOK, EngineTypeOK
<1>0. /\ i \in Rows /\ state[i] = "reserved"
      /\ UNCHANGED <<state, retries, req, replays, held>>
    BY HeldRow DEF SendBusy, Goto, engineVars, tables, insertCols, queueCols,
       boundVars
<1>1. ASSUME NEW k \in Ids, k # i
      PROVE  Accounted(k)'
    <2>1. Announced(k)' => Announced(k)
        BY <1>0, <1>1 DEF SendBusy, Goto, Announced
    <2>2. runs'[k] = runs[k]
        BY <1>0, <1>1 DEF SendBusy
    <2>3. QED
        BY <1>0, <2>1, <2>2, RowUntouched DEF AttemptsCounted, Accounted
<1>2. Accounted(i)'
    <2>1. RowBudget(i) /\ Started(i) = 0
        BY <1>0 DEF AttemptsCounted, Started, Announced, SendBusy, Goto
    <2>2. ~Announced(i)'
        BY <1>0 DEF Announced, SendBusy, Goto, ExclusiveReservation
    <2>3. Started(i)' = 1
        BY <1>0, <2>2 DEF Started
    <2>4. runs'[i] = runs[i] + 1
        BY <1>0 DEF SendBusy
    <2>5. Allowed(i) \in Nat /\ replays * Allowed(i) \in Nat
        BY <1>0, AllowedType, CountersType, ProductStep
    <2>6. Allowed(i)' = Allowed(i)
        BY <1>0 DEF Allowed
    <2>7. RowBudget(i)'
        BY <1>0, <2>1, <2>3, <2>4, <2>5, <2>6, CountersType DEF RowBudget
    <2>8. QED
        BY <1>0, <2>7 DEF Accounted
<1>3. QED
    BY <1>1, <1>2 DEF AttemptsCounted, Accounted

\* What a worker's report leaves of the other rows, and that the reported row
\* was counted as started.
LEMMA ReportFrame ==
    ASSUME IInv, NEW w \in Workers, Report(w)
    PROVE  /\ held[w] \in Rows /\ held[w] \in Ids /\ state[held[w]] = "reserved"
           /\ Started(held[w]) = 1
           /\ \A k \in Ids : Announced(k)' => Announced(k)
           /\ UNCHANGED <<runs, replays>>
<1>1. held[w] \in Rows /\ held[w] \in Ids /\ state[held[w]] = "reserved"
    BY HeldRow DEF Report, Goto
<1>2. ~Announced(held[w])
    BY <1>1, PoolAssumption DEF Announced, Report, Goto, IInv, ExclusiveReservation
<1>3. \A k \in Ids : Announced(k)' => Announced(k)
    BY DEF Announced, Report, Goto, IInv, TypeOK
<1>4. QED
    BY <1>1, <1>2, <1>3 DEF Started, Report, history

LEMMA CompleteAttempts ==
    ASSUME IInv, AttemptsCounted, NEW w \in Workers, NEW cpu \in Durations,
           CompleteJob(w, cpu), NEW i \in Ids, held[w] = i
    PROVE  AttemptsCounted'
<1> USE DEF IInv, TypeOK, EngineTypeOK
<1>0. /\ i \in Rows /\ state[i] = "reserved" /\ Started(i) = 1
      /\ \A k \in Ids : Announced(k)' => Announced(k)
      /\ UNCHANGED <<runs, replays>>
    BY ReportFrame DEF CompleteJob
<1>1. /\ UNCHANGED <<retries, req>>
      /\ state' = [state EXCEPT ![i] = "done"]
    BY DEF CompleteJob, Complete, insertCols
<1>2. ASSUME NEW k \in Ids, k # i
      PROVE  Accounted(k)'
    BY <1>0, <1>1, <1>2, RowUntouched DEF AttemptsCounted, Accounted
<1>3. Accounted(i)'
    <2>1. RowBudget(i) /\ state'[i] = "done"
        BY <1>0, <1>1 DEF AttemptsCounted
    <2>2. Started(i)' = 1
        BY <1>0, <2>1 DEF Started, Announced, CompleteJob, Report, Goto
    <2>3. Allowed(i)' = Allowed(i)
        BY <1>1 DEF Allowed
    <2>4. QED
        BY <1>0, <1>1, <2>1, <2>2, <2>3 DEF Accounted, RowBudget
<1>4. QED
    BY <1>2, <1>3 DEF AttemptsCounted, Accounted

LEMMA FailAttempts ==
    ASSUME IInv, AttemptsCounted, NEW w \in Workers, FailJob(w),
           NEW i \in Ids, held[w] = i
    PROVE  AttemptsCounted'
<1> USE DEF IInv, TypeOK, EngineTypeOK
<1>0. /\ i \in Rows /\ state[i] = "reserved" /\ Started(i) = 1
      /\ \A k \in Ids : Announced(k)' => Announced(k)
      /\ UNCHANGED <<runs, replays>>
    BY ReportFrame DEF FailJob
<1> DEFINE n == retries[i] + 1
<1>1. /\ UNCHANGED req
      /\ retries' = [retries EXCEPT ![i] = n]
      /\ \/ n <= req[i].maxRetries /\ state' = [state EXCEPT ![i] = "pending"]
         \/ ~(n <= req[i].maxRetries) /\ state' = [state EXCEPT ![i] = "dead"]
    BY DEF FailJob, Fail, RetriesLeft, insertCols
<1>2. ASSUME NEW k \in Ids, k # i
      PROVE  Accounted(k)'
    <2>1. state'[k] = state[k] /\ retries'[k] = retries[k]
        BY <1>0, <1>1, <1>2
    <2>2. QED
        BY <1>0, <1>1, <2>1, RowUntouched DEF AttemptsCounted, Accounted
<1>3. Accounted(i)'
    <2>1. RowBudget(i) /\ retries'[i] = n
        BY <1>0, <1>1 DEF AttemptsCounted
    <2>2. retries[i] \in Nat /\ runs[i] \in Nat /\ replays \in Nat
        BY <1>0, CountersType
    <2>3. Allowed(i) \in Nat /\ replays * Allowed(i) \in Nat
        BY <1>0, <2>2, AllowedType, ProductStep
    <2>4. Allowed(i)' = Allowed(i)
        BY <1>1 DEF Allowed
    <2>5. retries[i] < Allowed(i)
        BY <1>0, <2>1, <2>2, <2>3 DEF RowBudget
    <2>6. req[i].maxRetries \in Int
        BY <1>0, RequestTypes
    <2>7. /\ n <= Allowed(i)
          /\ n = Allowed(i) <=> state'[i] = "dead"
          /\ state'[i] \in {"pending", "dead"}
        BY <1>0, <1>1, <2>2, <2>5, <2>6 DEF Allowed, AllowedTries
    <2>8. Started(i)' = 0
        BY <2>7 DEF Started
    <2>9. runs[i] <= replays * Allowed(i) + n + 0
        BY <1>0, <2>1, <2>2, <2>3 DEF RowBudget
    <2>10. RowBudget(i)'
        BY <1>0, <2>1, <2>4, <2>7, <2>8, <2>9 DEF RowBudget
    <2>11. QED
        BY <2>7, <2>10 DEF Accounted
<1>4. QED
    BY <1>2, <1>3 DEF AttemptsCounted, Accounted

LEMMA ReplayAttempts ==
    ASSUME IInv, AttemptsCounted, RequestReplay
    PROVE  AttemptsCounted'
<1> USE DEF IInv, TypeOK, EngineTypeOK
<1>0. /\ UNCHANGED <<req, runs, held, pc>>
      /\ replays' = replays + 1
    BY DEF RequestReplay, Request, DLQReplay, insertCols, workerVars
<1>1. ASSUME NEW i \in Ids, state[i] = "absent"
      PROVE  Accounted(i)'
    BY <1>0, <1>1 DEF AttemptsCounted, Accounted, Blank, RequestReplay,
       DLQReplay, Replayable
<1>2. ASSUME NEW i \in Ids, state[i] # "absent"
      PROVE  Accounted(i)'
    <2>1. RowBudget(i)
        BY <1>2 DEF AttemptsCounted
    <2>2. retries[i] \in Nat /\ runs[i] \in Nat /\ replays \in Nat
        BY CountersType
    <2>3. Allowed(i) \in Nat \ {0}
        BY <1>2, AllowedType DEF Rows
    <2>4. /\ replays' * Allowed(i) = replays * Allowed(i) + Allowed(i)
          /\ replays * Allowed(i) \in Nat
        BY <1>0, <2>2, <2>3, ProductStep
    <2>5. Allowed(i)' = Allowed(i)
        BY <1>0 DEF Allowed
    <2>6. CASE state[i] = "dead"
        <3>1. state'[i] = "pending" /\ retries'[i] = 0
            BY <2>6 DEF RequestReplay, DLQReplay, Replayable
        <3>2. Started(i) = 0 /\ Started(i)' = 0
            BY <2>6, <3>1 DEF Started
        <3>3. runs[i] <= replays' * Allowed(i)
            BY <2>1, <2>2, <2>3, <2>4, <3>2 DEF RowBudget
        <3>4. RowBudget(i)'
            BY <1>0, <2>2, <2>3, <2>4, <2>5, <3>1, <3>2, <3>3 DEF RowBudget
        <3>5. QED
            BY <3>1, <3>4 DEF Accounted
    <2>7. CASE state[i] # "dead"
        <3>1. state'[i] = state[i] /\ retries'[i] = retries[i]
            BY <2>7 DEF RequestReplay, DLQReplay, Replayable
        <3>2. Started(i)' = Started(i) /\ Started(i) \in {0, 1}
            BY <1>0, <3>1 DEF Started, Announced
        <3>3. RowBudget(i)'
            BY <1>0, <2>1, <2>2, <2>3, <2>4, <2>5, <3>1, <3>2 DEF RowBudget
        <3>4. QED
            BY <1>2, <3>1, <3>3 DEF Accounted
    <2>8. QED
        BY <2>6, <2>7
<1>3. QED
    BY <1>1, <1>2 DEF AttemptsCounted, Accounted

LEMMA EnqueueAttempts ==
    ASSUME IInv, AttemptsCounted, NEW i \in Ids, NEW q \in Requests,
           RequestEnqueue(i, q)
    PROVE  AttemptsCounted'
<1> USE DEF IInv, TypeOK, EngineTypeOK
<1>0. /\ UNCHANGED <<runs, replays, held, pc>>
      /\ state[i] = "absent"
    BY DEF RequestEnqueue, Request, Enqueue, Insertable, Rows, workerVars, boundVars
<1>1. ASSUME NEW k \in Ids, k # i
      PROVE  Accounted(k)'
    <2>1. state'[k] = state[k] /\ retries'[k] = retries[k] /\ req'[k] = req[k]
        BY <1>1 DEF RequestEnqueue, Enqueue
    <2>2. Announced(k)' => Announced(k)
        BY <1>0 DEF Announced
    <2>3. QED
        BY <1>0, <2>1, <2>2, RowUntouched DEF AttemptsCounted, Accounted
<1>2. Accounted(i)'
    <2>1. state'[i] = "pending" /\ retries'[i] = 0 /\ req'[i] = q /\ runs'[i] = 0
        BY <1>0 DEF RequestEnqueue, Enqueue, AttemptsCounted, Blank
    <2>2. Allowed(i)' \in Nat \ {0}
        BY <2>1, RequestTypes DEF Allowed, AllowedTries
    <2>3. (replays * Allowed(i))' \in Nat
        BY <1>0, <2>2, CountersType, ProductStep
    <2>4. Started(i)' = 0
        BY <2>1 DEF Started
    <2>5. RowBudget(i)'
        BY <2>1, <2>2, <2>3, <2>4 DEF RowBudget
    <2>6. QED
        BY <2>1, <2>5 DEF Accounted
<1>3. QED
    BY <1>1, <1>2 DEF AttemptsCounted, Accounted

-----------------------------------------------------------------------------
(* All steps *)

\* A step that leaves rows, counters and requests as they are, and announces
\* nothing, leaves the accounting right.
LEMMA QuietAttempts ==
    ASSUME IInv, AttemptsCounted,
           UNCHANGED state, UNCHANGED retries, UNCHANGED req, UNCHANGED runs,
           UNCHANGED replays, \A k \in Ids : Announced(k)' => Announced(k)
    PROVE  AttemptsCounted'
    BY RowUntouched DEF AttemptsCounted

LEMMA WorkerAttempts ==
    ASSUME IInv, AttemptsCounted, NEW w \in Workers, Worker(w)
    PROVE  AttemptsCounted'
<1>1. CASE StartReserve(w) \/ FindNothing(w) \/ ReserveError(w) \/ SendIdle(w)
           \/ StopWorker(w)
    <2>1. /\ UNCHANGED state /\ UNCHANGED retries /\ UNCHANGED req
          /\ UNCHANGED runs /\ UNCHANGED replays
        BY <1>1 DEF StartReserve, RecomputePriorities, FindNothing,
           ReserveError, NoReservation, SendIdle, StopWorker, engineVars, tables,
           insertCols, queueCols, boundVars, history
    <2>2. ASSUME NEW k \in Ids, NEW v \in Workers,
                 held'[v] = k, pc'[v] = "announcing"
          PROVE  held[v] = k /\ pc[v] = "announcing"
        BY <1>1, <2>2 DEF StartReserve, FindNothing, ReserveError,
           NoReservation, SendIdle, StopWorker, Goto, IInv, TypeOK
    <2>3. QED
        BY <2>1, <2>2, QuietAttempts DEF Announced
<1>2. CASE ReportError(w)
    <2>1. /\ UNCHANGED state /\ UNCHANGED retries /\ UNCHANGED req
          /\ UNCHANGED runs /\ UNCHANGED replays
        BY <1>2 DEF ReportError, Report, engineVars, tables, insertCols,
           queueCols, history
    <2>2. QED
        BY <1>2, <2>1, ReportFrame, QuietAttempts DEF ReportError
<1>3. CASE \E i \in Ids : PickJob(w, i)
    BY <1>3, PickAttempts
<1>4. CASE SendBusy(w)
    BY <1>4, HeldRow, SendBusyAttempts DEF SendBusy, Goto
<1>5. CASE \E cpu \in Durations : CompleteJob(w, cpu)
    BY <1>5, HeldRow, CompleteAttempts DEF CompleteJob, Report, Goto
<1>6. CASE FailJob(w)
    BY <1>6, HeldRow, FailAttempts DEF FailJob, Report, Goto
<1>7. QED
    BY <1>1, <1>2, <1>3, <1>4, <1>5, <1>6 DEF Worker

LEMMA NextAttempts ==
    IInv /\ AttemptsCounted /\ [Next]_vars => AttemptsCounted'
<1> SUFFICES ASSUME IInv, AttemptsCounted, [Next]_vars PROVE AttemptsCounted'
    OBVIOUS
<1>1. CASE \E w \in Workers : Worker(w)
    BY <1>1, WorkerAttempts
<1>2. CASE Client
    <2>1. CASE \E r \in RuleSets : RequestRules(r)
        BY <2>1, QuietAttempts DEF RequestRules, Request, SetRules, tables,
           insertCols, queueCols, boundVars, workerVars, Announced
    <2>2. QED
        BY <1>2, <2>1, EnqueueAttempts, ReplayAttempts DEF Client
<1>3. CASE Heartbeat \/ Receive \/ TimePasses \/ Signal \/ StopPool
    <2>1. /\ UNCHANGED state /\ UNCHANGED retries /\ UNCHANGED req
          /\ UNCHANGED runs /\ UNCHANGED replays
          /\ UNCHANGED held /\ UNCHANGED pc
        BY <1>3 DEF Heartbeat, Receive, TimePasses, Tick, Signal, StopPool,
           engineVars, tables, insertCols, queueCols, boundVars, workerVars,
           history
    <2>2. QED
        BY <2>1, QuietAttempts DEF Announced
<1>4. CASE Shutdown \/ Crash \/ Restart
    <2>1. /\ UNCHANGED state /\ UNCHANGED retries /\ UNCHANGED req
          /\ UNCHANGED runs /\ UNCHANGED replays
        BY <1>4 DEF Shutdown, Crash, ProcessEnds, Restart, NewEngine,
           engineVars, tables, insertCols, queueCols, boundVars, history
    <2>2. \A k \in Ids : ~Announced(k)'
        BY <1>4 DEF Shutdown, Crash, ProcessEnds, Restart, Announced
    <2>3. QED
        BY <2>1, <2>2, QuietAttempts
<1>5. CASE UNCHANGED vars
    BY <1>5, QuietAttempts DEF vars, engineVars, tables, insertCols, queueCols,
       poolVars, workerVars, boundVars, history, Announced
<1>6. QED
    BY <1>1, <1>2, <1>3, <1>4, <1>5 DEF Next

LEMMA BudgetFollows == IInv /\ AttemptsCounted => RetryBudget
<1> SUFFICES ASSUME IInv, AttemptsCounted, NEW i \in Rows
             PROVE  /\ runs[i] <= (replays + 1) * Allowed(i)
                    /\ retries[i] = Allowed(i) <=> state[i] = "dead"
                    /\ retries[i] <= Allowed(i)
    BY DEF RetryBudget
<1>1. RowBudget(i) /\ i \in Ids
    BY DEF AttemptsCounted, Rows
<1>2. retries[i] \in Nat /\ runs[i] \in Nat /\ replays \in Nat /\ Allowed(i) \in Nat
    BY <1>1, CountersType, AllowedType
<1>3. /\ (replays + 1) * Allowed(i) = replays * Allowed(i) + Allowed(i)
      /\ replays * Allowed(i) \in Nat
    BY <1>2, ProductStep
<1>4. retries[i] + Started(i) <= Allowed(i)
    <2>1. CASE state[i] = "dead"
        <3>1. Started(i) = 0
            BY <2>1 DEF Started
        <3>2. QED
            BY <1>1, <1>2, <3>1 DEF RowBudget
    <2>2. CASE state[i] # "dead"
        <3>1. retries[i] < Allowed(i)
            BY <1>1, <1>2, <2>2 DEF RowBudget
        <3>2. Started(i) \in {0, 1}
            BY DEF Started
        <3>3. QED
            BY <1>2, <3>1, <3>2
    <2>3. QED
        BY <2>1, <2>2
<1>5. Started(i) \in {0, 1}
    BY DEF Started
<1>6. QED
    BY <1>1, <1>2, <1>3, <1>4, <1>5 DEF RowBudget

LEMMA AttemptsInvariant == Spec => [](IInv /\ AttemptsCounted)
<1>1. Init => AttemptsCounted
    BY DEF Init, EngineInit, AttemptsCounted, Blank
<1>2. QED
    BY <1>1, NextAttempts, Invariance, PTL DEF Spec

\* A handler runs at most 1 + max_retries times between two replays, through
\* faults, crashes and restarts, and a job is dead exactly when it has failed
\* that often.
THEOREM RetriesWithinBudget == Spec => []RetryBudget
    BY AttemptsInvariant, BudgetFollows, PTL

-----------------------------------------------------------------------------
(* The time between a failure and the next try *)

\* The second of a row's last failure and the backoff make its run_at; only the
\* part of that second is lost.
WaitsBackoff(i) ==
    \E p \in 0 .. 9 : failedAt[i] = 10 * (runAt[i] - Backoff(retries[i])) + p

\* A row that waits for a retry keeps, in run_at, when it failed.
BackoffKept ==
    \A i \in Ids : state[i] = "pending" /\ retries[i] > 0 => WaitsBackoff(i)

LEMMA BackoffType == \A n \in Nat : Backoff(n) \in Int
    BY DEF Backoff

\* A step after which a row that waits for a retry is one that did before.
LEMMA BackoffUntouched ==
    ASSUME BackoffKept,
           \A k \in Ids : state'[k] = "pending" /\ retries'[k] > 0 =>
              /\ state[k] = "pending"
              /\ retries'[k] = retries[k]
              /\ runAt'[k] = runAt[k]
              /\ failedAt'[k] = failedAt[k]
    PROVE  BackoffKept'
    BY DEF BackoffKept, WaitsBackoff

LEMMA FailBackoff ==
    ASSUME IInv, BackoffKept, NEW w \in Workers, FailJob(w),
           NEW i \in Ids, held[w] = i
    PROVE  BackoffKept'
<1> USE DEF IInv, TypeOK, EngineTypeOK
<1> DEFINE n == retries[i] + 1
<1>1. /\ retries' = [retries EXCEPT ![i] = n]
      /\ failedAt' = [failedAt EXCEPT ![i] = Clock]
      /\ \/ /\ state' = [state EXCEPT ![i] = "pending"]
            /\ runAt' = [runAt EXCEPT ![i] = now + Backoff(n)]
         \/ state' = [state EXCEPT ![i] = "dead"] /\ UNCHANGED runAt
    BY DEF FailJob, Fail
<1>2. \A k \in Ids : k # i => /\ state'[k] = state[k]
                              /\ runAt'[k] = runAt[k]
                              /\ retries'[k] = retries[k]
                              /\ failedAt'[k] = failedAt[k]
    BY <1>1
<1>3. ASSUME state'[i] = "pending"
      PROVE  WaitsBackoff(i)'
    <2>1. /\ retries'[i] = n
          /\ runAt'[i] = now + Backoff(n)
          /\ failedAt'[i] = 10 * now + part
        BY <1>1, <1>3 DEF Clock
    <2>2. now \in Int /\ Backoff(n) \in Int /\ part \in 0 .. 9
        BY BackoffType, EngineAssumption
    <2> HIDE DEF n
    <2>3. failedAt'[i] = 10 * (runAt'[i] - Backoff(retries'[i])) + part
        BY <2>1, <2>2
    <2>4. QED
        BY <2>2, <2>3 DEF WaitsBackoff
<1>4. ASSUME NEW k \in Ids, k # i, state'[k] = "pending", retries'[k] > 0
      PROVE  WaitsBackoff(k)'
    <2>1. WaitsBackoff(k)
        BY <1>2, <1>4 DEF BackoffKept
    <2>2. QED
        BY <1>2, <1>4, <2>1 DEF WaitsBackoff
<1>5. QED
    BY <1>3, <1>4 DEF BackoffKept

LEMMA WorkerBackoff ==
    ASSUME IInv, BackoffKept, NEW w \in Workers, Worker(w)
    PROVE  BackoffKept'
<1> USE DEF IInv, TypeOK, EngineTypeOK
<1>1. CASE \E i \in Ids : PickJob(w, i)
    BY <1>1, BackoffUntouched DEF PickJob, SelectJob, history
<1>2. ASSUME NEW cpu \in Durations, CompleteJob(w, cpu)
      PROVE  BackoffKept'
    <2>1. held[w] \in Ids
        BY <1>2, HeldRow DEF CompleteJob, Report, Goto
    <2>2. /\ UNCHANGED <<retries, runAt, failedAt>>
          /\ state' = [state EXCEPT ![held[w]] = "done"]
        BY <1>2 DEF CompleteJob, Complete
    <2>3. QED
        BY <2>1, <2>2, BackoffUntouched
<1>3. CASE StartReserve(w) \/ FindNothing(w) \/ ReserveError(w) \/ SendBusy(w)
           \/ ReportError(w) \/ SendIdle(w) \/ StopWorker(w)
    <2>1. UNCHANGED <<state, retries, runAt, failedAt>>
        BY <1>3 DEF StartReserve, RecomputePriorities, FindNothing, ReserveError,
               NoReservation, SendBusy, ReportError, SendIdle, StopWorker, engineVars,
               tables, queueCols, history
    <2>2. QED
        BY <2>1, BackoffUntouched
<1>4. CASE FailJob(w)
    BY <1>4, HeldRow, FailBackoff DEF FailJob, Report, Goto
<1>5. QED
    BY <1>1, <1>2, <1>3, <1>4 DEF Worker

LEMMA NextBackoff ==
    IInv /\ BackoffKept /\ [Next]_vars => BackoffKept'
<1> SUFFICES ASSUME IInv, BackoffKept, [Next]_vars PROVE BackoffKept'
    OBVIOUS
<1> USE DEF IInv, TypeOK, EngineTypeOK
<1>1. ASSUME NEW i \in Ids, NEW q \in Requests, RequestEnqueue(i, q)
      PROVE  BackoffKept'
    <2>1. /\ retries'[i] = 0
          /\ UNCHANGED failedAt
          /\ \A k \in Ids : k # i => /\ state'[k] = state[k]
                                     /\ runAt'[k] = runAt[k]
                                     /\ retries'[k] = retries[k]
        BY <1>1 DEF RequestEnqueue, Request, Enqueue
    <2>2. QED
        BY <2>1, BackoffUntouched
<1>2. CASE RequestReplay
    <2>1. \A k \in Ids : \/ /\ state'[k] = state[k]
                            /\ runAt'[k] = runAt[k]
                            /\ retries'[k] = retries[k]
                         \/ retries'[k] = 0
        BY <1>2 DEF RequestReplay, DLQReplay
    <2>2. UNCHANGED failedAt
        BY <1>2 DEF RequestReplay, Request
    <2>3. QED
        BY <2>1, <2>2, BackoffUntouched
<1>3. CASE \/ \E r \in RuleSets : RequestRules(r)
           \/ Heartbeat \/ Receive \/ TimePasses \/ Signal \/ StopPool \/ Shutdown
           \/ Crash \/ Restart \/ UNCHANGED vars
    <2>1. UNCHANGED <<state, retries, runAt, failedAt>>
        BY <1>3 DEF RequestRules, Request, SetRules, Heartbeat, Receive, TimePasses,
               Tick, Signal, StopPool, Shutdown, Crash, ProcessEnds, Restart, NewEngine,
               vars, engineVars, tables, queueCols, poolVars, history
    <2>2. QED
        BY <2>1, BackoffUntouched
<1>4. QED
    BY <1>1, <1>2, <1>3, WorkerBackoff DEF Next, Client

\* What run_at tells of the time since the failure: it may be up to nine tenths
\* of a second early, and never late.
LEMMA RunAtTells ==
    ASSUME IInv, NEW i \in Ids, WaitsBackoff(i)
    PROVE  /\ runAt[i] <= now => Clock - failedAt[i] > 10 * (2 ^ retries[i] - 1)
           /\ Clock - failedAt[i] >= 10 * 2 ^ retries[i] => runAt[i] <= now
<1> USE DEF IInv, TypeOK, EngineTypeOK
<1>1. PICK p \in 0 .. 9 : failedAt[i] = 10 * (runAt[i] - Backoff(retries[i])) + p
    BY DEF WaitsBackoff
<1>2. /\ Backoff(retries[i]) \in Int /\ Backoff(retries[i]) = 2 ^ retries[i]
      /\ runAt[i] \in Int /\ now \in Int /\ part \in 0 .. 9
    BY BackoffType, EngineAssumption DEF Backoff
<1>3. Clock - failedAt[i]
        = 10 * (now - runAt[i]) + (part - p) + 10 * Backoff(retries[i])
    BY <1>1, <1>2 DEF Clock
<1>4. /\ runAt[i] <= now => Clock - failedAt[i] > 10 * (Backoff(retries[i]) - 1)
      /\ Clock - failedAt[i] >= 10 * Backoff(retries[i]) => runAt[i] <= now
    BY <1>2, <1>3
<1>5. QED
    BY <1>2, <1>4

\* The selection looks at run_at.
LEMMA ReservingWaited ==
    ASSUME IInv, BackoffKept, [Next]_vars, NEW i \in Ids, Reserving(i), retries[i] > 0
    PROVE  Clock - failedAt[i] > 10 * (2 ^ retries[i] - 1)
<1>1. runAt[i] <= now
    BY ReservedBySelection DEF SelectJob, Eligible
<1>2. WaitsBackoff(i)
    BY DEF BackoffKept, Reserving
<1>3. QED
    BY <1>1, <1>2, RunAtTells

\* A job that failed n times since it was enqueued or replayed is not reserved
\* again until more than 2^n - 1 seconds have passed since the failure, through
\* ends of the process and restarts as well: up to nine tenths of a second are lost
\* when run_at is stored.
THEOREM RetriesAreSpaced == Spec => BackoffSpacing
<1>1. Init => BackoffKept
    BY DEF Init, EngineInit, BackoffKept
<1>2. IInv /\ BackoffKept /\ [Next]_vars
      => [\A i \in Ids : Reserving(i) /\ retries[i] > 0
                         => Clock - failedAt[i] > 10 * (2 ^ retries[i] - 1)]_vars
    BY ReservingWaited
<1>3. QED
    BY <1>1, <1>2, NextBackoff, Invariance, PTL DEF Spec, BackoffSpacing

\* And once 2^n seconds have passed, at whatever parts of their seconds the job
\* failed and the query is made, the query finds it.
THEOREM RetriesNotLate == Spec => []RetriesDue
<1>1. Init => BackoffKept
    BY DEF Init, EngineInit, BackoffKept
<1>2. IInv /\ BackoffKept => RetriesDue
    <2> SUFFICES ASSUME IInv, BackoffKept, NEW i \in Rows,
                        state[i] = "pending", retries[i] > 0,
                        Clock - failedAt[i] >= 10 * 2 ^ retries[i]
                 PROVE  i \in Eligible
        BY DEF RetriesDue
    <2>1. i \in Ids /\ WaitsBackoff(i)
        BY DEF BackoffKept, Rows
    <2>2. runAt[i] <= now
        BY <2>1, RunAtTells
    <2>3. QED
        BY <2>1, <2>2 DEF Eligible
<1>3. QED
    BY <1>1, <1>2, NextBackoff, Invariance, PTL DEF Spec

=============================================================================
