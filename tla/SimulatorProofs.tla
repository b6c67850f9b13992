-------------------------- MODULE SimulatorProofs --------------------------
(***************************************************************************)
(* The simulator's safety for any jobs, workers and bounds, although its   *)
(* callbacks work on values that may be out of date.                       *)
(*                                                                         *)
(* Each property of the newest values is restored by a tick from what the  *)
(* tick saw, so the invariant says the same of both, and how far they may  *)
(* be apart: between a render and its tick, an execution that is under way *)
(* was seen to be.                                                         *)
(***************************************************************************)
EXTENDS Simulator, TLAPS

\* Of a list of jobs: the count of a queued job is within the budget, and an id
\* not given out yet is unused.
CountsOK(s, r) ==
    \A i \in Ids : /\ s[i] \in {"pending", "running"} => r[i] <= MaxRetries
                   /\ hash[i] = NoHash => s[i] = "absent" /\ r[i] = 0

\* Nothing is executed that was not enqueued.
ExecutionsKnown == \A e \in executions : hash[e.job] # NoHash

ExecutionsSeen ==
    ~ticked => \A e \in executions : /\ seen.busy[e.worker]
                                     /\ seen.state[e.job] \in {"running", "absent"}

SInv ==
    /\ SimTypeOK
    /\ ExclusiveExecution
    /\ ExecutionsKnown
    /\ CountsOK(state, retries)
    /\ CountsOK(seen.state, seen.retries)
    /\ ExecutionsSeen

-----------------------------------------------------------------------------
(* What a tick hands out *)

LEMMA AllocationFacts ==
    ASSUME NEW job \in Allocations
    PROVE  /\ DOMAIN job \subseteq {w \in Workers : ~seen.busy[w]}
           /\ \A w \in DOMAIN job : job[w] \in Ids /\ seen.state[job[w]] = "pending"
           /\ \A v, w \in DOMAIN job : job[v] = job[w] => v = w
           /\ \A i \in Range(job) : \E w \in DOMAIN job : i = job[w]
           /\ \A w \in DOMAIN job : job[w] \in Range(job)
<1>1. CASE seen.backpressureLock
    <2>1. job = << >>
        BY <1>1 DEF Allocations
    <2>2. DOMAIN job = {}
        BY <2>1
    <2>3. QED
        BY <2>2 DEF Range
<1>2. CASE ~seen.backpressureLock
    <2>1. PICK W \in SUBSET Idle : job \in Injection(W, Waiting)
        BY <1>2 DEF Allocations
    <2>2. /\ job \in [W -> Waiting]
          /\ \A v, w \in DOMAIN job : job[v] = job[w] => v = w
        BY <2>1 DEF Injection, IsInjective
    <2>3. DOMAIN job = W
        BY <2>2
    <2>4. QED
        BY <2>1, <2>2, <2>3 DEF Idle, Waiting, Range
<1>3. QED
    BY <1>1, <1>2

LEMMA InitSInv == SimInit => SInv
<1> SUFFICES ASSUME SimInit PROVE SInv
    OBVIOUS
<1>1. SimTypeOK
    <2>1. Seeds \subseteq Ids /\ \A i \in Seeds : SeedHash[i] \in Hashes
        BY SimulatorAssumption DEF Seeds, Range
    <2>2. busy \in [Workers -> BOOLEAN]
        BY Zenon DEF SimInit
    <2>3. state \in [Ids -> JobState] /\ hash \in [Ids -> Hashes \cup {NoHash}]
        BY <2>1 DEF SimInit, JobState
    <2>4. /\ retries \in [Ids -> 0 .. MaxRetries + 1]
          /\ runs \in [Ids -> Nat]
          /\ replays \in 0 .. MaxReplays
        BY SimulatorAssumption DEF SimInit
    <2>5. backpressureLock \in BOOLEAN /\ ticked \in BOOLEAN
        BY DEF SimInit
    <2>6. executions \subseteq [job : Ids, worker : Workers] /\ accepted \subseteq Ids
        BY <2>1 DEF SimInit
    <2>7. seen = Rendered
        BY DEF SimInit
    <2>8. QED
        BY <2>2, <2>3, <2>4, <2>5, <2>6, <2>7 DEF SimTypeOK, Rendered
<1>2. CountsOK(state, retries)
    <2>1. \A i \in Seeds : SeedHash[i] # NoHash
        BY SimulatorAssumption DEF Seeds, Range
    <2>2. QED
        BY <2>1, SimulatorAssumption DEF SimInit, CountsOK
<1>3. CountsOK(seen.state, seen.retries)
    BY <1>2 DEF SimInit, Rendered
<1>4. ExclusiveExecution /\ ExecutionsKnown /\ ExecutionsSeen
    BY DEF SimInit, ExclusiveExecution, ExecutionsKnown, ExecutionsSeen
<1>5. QED
    BY <1>1, <1>2, <1>3, <1>4 DEF SInv

-----------------------------------------------------------------------------
(* Steps *)

LEMMA RenderedType ==
    ASSUME state \in [Ids -> JobState],
           retries \in [Ids -> 0 .. MaxRetries + 1],
           busy \in [Workers -> BOOLEAN],
           backpressureLock \in BOOLEAN
    PROVE  Rendered \in [state : [Ids -> JobState],
                         retries : [Ids -> 0 .. MaxRetries + 1],
                         busy : [Workers -> BOOLEAN],
                         backpressureLock : BOOLEAN]
    BY DEF Rendered

LEMMA FormSubmitSInv ==
    ASSUME SInv, NEW i \in Ids, NEW h \in Hashes, FormSubmit(i, h)
    PROVE  SInv'
<1> USE DEF SInv, SimTypeOK, FormSubmit, NewJob
<1>1. /\ state' = [state EXCEPT ![i] = "pending"]
      /\ state[i] = "absent"
      /\ retries[i] = 0
      /\ hash' = [hash EXCEPT ![i] = h]
    BY DEF CountsOK
<1>2. /\ state' \in [Ids -> JobState]
      /\ hash' \in [Ids -> Hashes \cup {NoHash}]
      /\ accepted' \subseteq Ids
      /\ ticked' = FALSE
    BY <1>1 DEF JobState, Click
<1>3. seen' = Rendered'
    BY DEF Click
<1>4. SimTypeOK'
    BY <1>2, <1>3, RenderedType DEF Rendered
<1>5. CountsOK(state, retries)'
    BY <1>1, SimulatorAssumption DEF CountsOK
<1>6. CountsOK(seen.state, seen.retries)'
    BY <1>3, <1>5 DEF Rendered, CountsOK
<1>7. ExclusiveExecution' /\ ExecutionsKnown'
    BY <1>1, SimulatorAssumption DEF ExclusiveExecution, ExecutionsKnown
<1>8. ExecutionsSeen'
    BY <1>3, <1>7 DEF ExecutionsSeen, ExclusiveExecution, Rendered
<1>9. QED
    BY <1>4, <1>5, <1>6, <1>7, <1>8

LEMMA OtherClickSInv ==
    ASSUME SInv, DLQReplay \/ ClearQueue \/ ToggleLock
    PROVE  SInv'
<1> USE DEF SInv, SimTypeOK
<1>1. seen' = Rendered' /\ ticked' = FALSE
    BY DEF DLQReplay, ClearQueue, ToggleLock, Click
<1>2. /\ UNCHANGED busy
      /\ UNCHANGED executions
      /\ UNCHANGED hash
      /\ UNCHANGED runs
      /\ accepted' \subseteq Ids
    BY DEF DLQReplay, ClearQueue, ToggleLock, history
<1>2a. replays' \in 0 .. MaxReplays
    BY SimulatorAssumption DEF DLQReplay, ClearQueue, ToggleLock
<1>2b. backpressureLock' \in BOOLEAN
    BY Zenon DEF DLQReplay, ClearQueue, ToggleLock
<1>3. /\ state' \in [Ids -> JobState]
      /\ retries' \in [Ids -> 0 .. MaxRetries + 1]
      /\ CountsOK(state, retries)'
      /\ \A i \in Ids : state[i] \in {"running", "absent"}
                          => state'[i] \in {"running", "absent"}
    <2> USE SimulatorAssumption DEF JobState, CountsOK
    <2>1. CASE DLQReplay
        BY <2>1 DEF DLQReplay, history
    <2>2. CASE ClearQueue
        BY <2>2 DEF ClearQueue
    <2>3. CASE ToggleLock
        BY <2>3 DEF ToggleLock, history
    <2>4. QED
        BY <2>1, <2>2, <2>3
<1>4. SimTypeOK'
    BY <1>1, <1>2, <1>3, <1>2a, <1>2b, RenderedType DEF Rendered
<1>5. CountsOK(seen.state, seen.retries)'
    BY <1>1, <1>3 DEF Rendered, CountsOK
<1>6. ExclusiveExecution' /\ ExecutionsKnown'
    BY <1>2, <1>3 DEF ExclusiveExecution, ExecutionsKnown
<1>7. ExecutionsSeen'
    BY <1>1, <1>6 DEF ExecutionsSeen, ExclusiveExecution, Rendered
<1>8. QED
    BY <1>3, <1>4, <1>5, <1>6, <1>7

LEMMA RenderSInv ==
    ASSUME SInv, Render
    PROVE  SInv'
<1> USE DEF SInv, SimTypeOK, Render
<1>1. SimTypeOK'
    BY RenderedType DEF page, history
<1>2. CountsOK(state, retries)' /\ ExclusiveExecution' /\ ExecutionsKnown'
    BY DEF page, history, CountsOK, ExclusiveExecution, ExecutionsKnown
<1>3. CountsOK(seen.state, seen.retries)'
    BY DEF page, history, CountsOK, Rendered
<1>4. ExecutionsSeen'
    BY DEF page, ExecutionsSeen, ExclusiveExecution, Rendered
<1>5. QED
    BY <1>1, <1>2, <1>3, <1>4

LEMMA FinishSInv ==
    ASSUME SInv, NEW e \in executions, Finish(e)
    PROVE  SInv'
<1> USE DEF SInv, SimTypeOK, Finish, history
<1>1. /\ e.job \in Ids
      /\ e.worker \in Workers
      /\ executions' = executions \ {e}
      /\ busy' = [busy EXCEPT ![e.worker] = FALSE]
      /\ state[e.job] \in {"running", "absent"}
    BY DEF ExclusiveExecution
<1>2. /\ state' \in [Ids -> JobState]
      /\ retries' \in [Ids -> 0 .. MaxRetries + 1]
      /\ CountsOK(state, retries)'
      /\ \A i \in Ids : i # e.job => state'[i] = state[i]
    <2>1. hash[e.job] # NoHash
        BY DEF ExecutionsKnown
    <2>2. CASE UNCHANGED <<state, retries>>
        BY <2>2 DEF CountsOK
    <2>3. CASE state[e.job] = "running" /\ Succeed(e.job)
        BY <1>1, <2>1, <2>3 DEF Succeed, CountsOK, JobState
    <2>4. CASE state[e.job] = "running" /\ FailOrRetry(e.job)
        <3>1. retries[e.job] \in 0 .. MaxRetries
            BY <1>1, <2>4, SimulatorAssumption DEF CountsOK
        <3>2. QED
            BY <1>1, <2>1, <2>4, <3>1, SimulatorAssumption
            DEF FailOrRetry, RetriesLeft, CountsOK, JobState
    <2>5. QED
        BY <1>1, <2>2, <2>3, <2>4
<1>3. SimTypeOK'
    BY <1>1, <1>2
<1>4. ExclusiveExecution' /\ ExecutionsKnown' /\ ExecutionsSeen'
    BY <1>1, <1>2 DEF ExclusiveExecution, ExecutionsKnown, ExecutionsSeen
<1>5. CountsOK(seen.state, seen.retries)'
    BY DEF CountsOK
<1>6. QED
    BY <1>2, <1>3, <1>4, <1>5

LEMMA TickSInv ==
    ASSUME SInv, Tick
    PROVE  SInv'
<1> USE DEF SInv, SimTypeOK
<1>1. PICK job \in Allocations :
          /\ state' = [i \in Ids |->
                          IF i \in Range(job) THEN "running" ELSE seen.state[i]]
          /\ busy' = [w \in Workers |-> \/ seen.backpressureLock
                                        \/ seen.busy[w]
                                        \/ w \in DOMAIN job]
          /\ executions' = executions
                \cup {[job |-> job[w], worker |-> w] : w \in DOMAIN job}
          /\ runs' = [i \in Ids |->
                          IF i \in Range(job) THEN runs[i] + 1 ELSE runs[i]]
    BY DEF Tick
<1>2. /\ \A w \in DOMAIN job : /\ w \in Workers
                               /\ ~seen.busy[w]
                               /\ job[w] \in Ids
                               /\ job[w] \in Range(job)
                               /\ seen.state[job[w]] = "pending"
      /\ \A v, w \in DOMAIN job : job[v] = job[w] => v = w
      /\ \A i \in Range(job) : seen.state[i] = "pending"
    BY AllocationFacts
<1>3. /\ ~ticked
      /\ ticked' = TRUE
      /\ retries' = seen.retries
      /\ UNCHANGED backpressureLock
      /\ UNCHANGED seen
      /\ UNCHANGED replays
    BY DEF Tick
<1>4. /\ hash' \in [Ids -> Hashes \cup {NoHash}]
      /\ accepted' \subseteq Ids
      /\ \A i \in Ids : hash'[i] = NoHash => hash[i] = NoHash
    BY SimulatorAssumption DEF Tick, AutoProduce, NewJob
<1>5. /\ state' \in [Ids -> JobState]
      /\ retries' \in [Ids -> 0 .. MaxRetries + 1]
      /\ runs' \in [Ids -> Nat]
    BY <1>1, <1>3 DEF JobState
<1>6. busy' \in [Workers -> BOOLEAN]
    BY <1>1, Zenon
<1>7. executions' \subseteq [job : Ids, worker : Workers]
    BY <1>1, <1>2
<1>8. SimTypeOK'
    BY <1>3, <1>4, <1>5, <1>6, <1>7
<1>9. CountsOK(seen.state, seen.retries)'
    BY <1>3, <1>4 DEF CountsOK
<1>10. CountsOK(state, retries)'
    BY <1>1, <1>2, <1>3, <1>4 DEF CountsOK
<1>11. \A e \in executions : /\ e.job \in Ids
                             /\ e.worker \in Workers
                             /\ seen.busy[e.worker]
                             /\ seen.state[e.job] \in {"running", "absent"}
    BY <1>3 DEF ExecutionsSeen
<1>12. \A e \in executions' : busy'[e.worker]
    <2>1. \A w \in Workers : w \in DOMAIN job \/ seen.busy[w] => busy'[w]
        BY <1>1, Zenon
    <2>2. \A e \in executions' : e.worker \in Workers
                                 /\ (e.worker \in DOMAIN job \/ seen.busy[e.worker])
        BY <1>1, <1>2, <1>11
    <2>3. QED
        BY <2>1, <2>2, Zenon
<1>13. \A e \in executions' : state'[e.job] \in {"running", "absent"}
    BY <1>1, <1>2, <1>11
<1>14. \A e, f \in executions' : e.job = f.job \/ e.worker = f.worker => e = f
    BY <1>1, <1>2, <1>11 DEF ExclusiveExecution
<1>15. ExecutionsKnown'
    BY <1>1, <1>2, <1>4 DEF ExecutionsKnown, CountsOK
<1>16. ExecutionsSeen'
    BY <1>3 DEF ExecutionsSeen
<1>17. QED
    BY <1>8, <1>9, <1>10, <1>12, <1>13, <1>14, <1>15, <1>16 DEF ExclusiveExecution

-----------------------------------------------------------------------------

LEMMA NextSInv == SInv /\ [SimNext]_vars => SInv'
<1> SUFFICES ASSUME SInv, [SimNext]_vars PROVE SInv'
    OBVIOUS
<1>1. CASE UNCHANGED vars
    BY <1>1 DEF vars, page, history, SInv, SimTypeOK, ExclusiveExecution,
           CountsOK, ExecutionsKnown, ExecutionsSeen
<1>2. CASE SimNext
    BY <1>2, FormSubmitSInv, OtherClickSInv, TickSInv, FinishSInv, RenderSInv
    DEF SimNext
<1>3. QED
    BY <1>1, <1>2

LEMMA SimInvariance == SimSpec => []SInv
    BY InitSInv, NextSInv, PTL DEF SimSpec

\* No job of the page exceeds its retries by more than the failure that kills
\* it, and every variable keeps its type.
THEOREM SimTypeCorrectness == SimSpec => []SimTypeOK
<1>1. SInv => SimTypeOK
    BY DEF SInv
<1>2. QED
    BY <1>1, SimInvariance, PTL

\* The page never executes a job twice at a time, nor two on one worker,
\* although every tick decides on values that may be out of date.
THEOREM SimExclusiveExecution == SimSpec => []ExclusiveExecution
<1>1. SInv => ExclusiveExecution
    BY DEF SInv
<1>2. QED
    BY <1>1, SimInvariance, PTL

-----------------------------------------------------------------------------
(* How often a job is started *)

\* Of a list of jobs: with the executions that all replays so far allow, a
\* queued job was started once for each failure that its count shows.
StartsOK(s, r) ==
    \A i \in Ids :
        /\ s[i] = "pending" => runs[i] <= replays * (MaxRetries + 1) + r[i]
        /\ s[i] = "running" => runs[i] <= replays * (MaxRetries + 1) + r[i] + 1

\* An id that was not given out was never started.
UnusedUnstarted == \A i \in Ids : hash[i] = NoHash => runs[i] = 0

StartsInv ==
    /\ StartsBounded
    /\ UnusedUnstarted
    /\ StartsOK(state, retries)
    /\ ~ticked => StartsOK(seen.state, seen.retries)

LEMMA OneMoreReplay ==
    ASSUME NEW r \in Nat
    PROVE  /\ r * (MaxRetries + 1) \in Nat
           /\ (r + 1) * (MaxRetries + 1) = r * (MaxRetries + 1) + MaxRetries + 1
    BY SimulatorAssumption

LEMMA InitStarts == SimInit => StartsInv
<1> SUFFICES ASSUME SimInit PROVE StartsInv
    OBVIOUS
<1>1. /\ \A i \in Ids : runs[i] = 0 /\ retries[i] = 0
      /\ replays = 0
      /\ seen = Rendered
    BY DEF SimInit
<1>2. StartsBounded /\ StartsOK(state, retries)
    BY <1>1, SimulatorAssumption DEF StartsBounded, StartsOK
<1>3. QED
    BY <1>1, <1>2 DEF StartsInv, Rendered, StartsOK, UnusedUnstarted

LEMMA ShownStarts ==
    ASSUME seen' = Rendered', StartsBounded', UnusedUnstarted', StartsOK(state, retries)'
    PROVE  StartsInv'
    BY DEF Rendered, StartsInv, StartsOK

LEMMA TickStarts ==
    ASSUME SInv, StartsInv, Tick
    PROVE  StartsInv'
<1>1. PICK started \in SUBSET Ids :
          /\ \A i \in started : seen.state[i] = "pending"
          /\ state' = [i \in Ids |->
                          IF i \in started THEN "running" ELSE seen.state[i]]
          /\ runs' = [i \in Ids |-> IF i \in started THEN runs[i] + 1 ELSE runs[i]]
    <2>1. PICK job \in Allocations :
              /\ state' = [i \in Ids |->
                              IF i \in Range(job) THEN "running" ELSE seen.state[i]]
              /\ runs' = [i \in Ids |->
                              IF i \in Range(job) THEN runs[i] + 1 ELSE runs[i]]
        BY DEF Tick
    <2>2. Range(job) \subseteq Ids /\ \A i \in Range(job) : seen.state[i] = "pending"
        BY AllocationFacts
    <2>3. QED
        BY <2>1, <2>2
<1>2. /\ ticked' = TRUE
      /\ retries' = seen.retries
      /\ UNCHANGED replays
      /\ StartsOK(seen.state, seen.retries)
    BY DEF Tick, StartsInv
<1> DEFINE B == replays * (MaxRetries + 1)
<1>3. B \in Nat /\ (replays + 1) * (MaxRetries + 1) = B + MaxRetries + 1
    BY OneMoreReplay, SimulatorAssumption DEF SInv, SimTypeOK
<1>4. \A i \in Ids : /\ runs[i] \in Nat
                     /\ seen.retries[i] \in Nat
                     /\ runs[i] <= B + MaxRetries + 1
                     /\ i \in started => /\ seen.retries[i] <= MaxRetries
                                         /\ runs[i] <= B + seen.retries[i]
    BY <1>1, <1>2, <1>3, SimulatorAssumption
    DEF SInv, SimTypeOK, CountsOK, StartsInv, StartsBounded, StartsOK
<1>5. \A i \in Ids : /\ seen.state[i] = "pending" => runs[i] <= B + seen.retries[i]
                     /\ seen.state[i] = "running" => runs[i] <= B + seen.retries[i] + 1
    BY <1>2 DEF StartsOK
<1>6. B' = B
    BY <1>2
<1> HIDE DEF B
<1>7. \A i \in Ids : runs'[i] <= B + MaxRetries + 1
    BY <1>1, <1>3, <1>4, SimulatorAssumption
<1>8. \A i \in Ids : /\ state'[i] = "pending" => runs'[i] <= B + retries'[i]
                     /\ state'[i] = "running" => runs'[i] <= B + retries'[i] + 1
    BY <1>1, <1>2, <1>3, <1>4, <1>5
<1>9. StartsBounded' /\ StartsOK(state, retries)'
    BY <1>2, <1>3, <1>7, <1>8 DEF StartsBounded, StartsOK, B
<1>10. UnusedUnstarted'
    <2>1. \A i \in Ids : hash'[i] = NoHash => hash[i] = NoHash
        BY SimulatorAssumption DEF Tick, AutoProduce, NewJob, SInv, SimTypeOK
    <2>2. \A i \in started : hash[i] # NoHash
        BY <1>1 DEF SInv, CountsOK
    <2>3. QED
        BY <1>1, <2>1, <2>2 DEF StartsInv, UnusedUnstarted, SInv, SimTypeOK
<1>11. QED
    BY <1>2, <1>9, <1>10 DEF StartsInv

LEMMA FinishStarts ==
    ASSUME SInv, StartsInv, NEW e \in executions, Finish(e)
    PROVE  StartsInv'
<1>1. /\ UNCHANGED runs
      /\ UNCHANGED replays
      /\ UNCHANGED seen
      /\ UNCHANGED ticked
    BY DEF Finish, history
<1>2. e.job \in Ids /\ state[e.job] \in {"running", "absent"}
    BY DEF SInv, SimTypeOK, ExclusiveExecution
<1>3. replays * (MaxRetries + 1) \in Nat
    BY OneMoreReplay, SimulatorAssumption DEF SInv, SimTypeOK
<1>4. StartsOK(state, retries)'
    <2>1. CASE UNCHANGED <<state, retries>>
        BY <1>1, <2>1 DEF StartsInv, StartsOK
    <2>2. CASE Succeed(e.job)
        BY <1>1, <1>2, <2>2 DEF Succeed, StartsInv, StartsOK, SInv, SimTypeOK
    <2>3. CASE state[e.job] = "running" /\ FailOrRetry(e.job)
        BY <1>1, <1>2, <1>3, <2>3
        DEF FailOrRetry, StartsInv, StartsOK, SInv, SimTypeOK
    <2>4. QED
        BY <1>2, <2>1, <2>2, <2>3 DEF Finish
<1>5. QED
    BY <1>1, <1>4 DEF StartsInv, StartsBounded, StartsOK, UnusedUnstarted, Finish,
           history

LEMMA DLQReplayStarts ==
    ASSUME SInv, StartsInv, DLQReplay
    PROVE  StartsInv'
<1> USE SimulatorAssumption DEF SInv, SimTypeOK
<1>1. /\ replays' = replays + 1
      /\ state' = [i \in Ids |-> IF state[i] = "dead" THEN "pending" ELSE state[i]]
      /\ retries' = [i \in Ids |-> IF state[i] = "dead" THEN 0 ELSE retries[i]]
      /\ UNCHANGED runs
      /\ UNCHANGED hash
      /\ seen' = Rendered'
    BY DEF DLQReplay, Click, history
<1> DEFINE B == replays * (MaxRetries + 1)
<1>2. /\ B \in Nat
      /\ (replays + 1) * (MaxRetries + 1) = B + MaxRetries + 1
      /\ (replays + 1 + 1) * (MaxRetries + 1)
            = (replays + 1) * (MaxRetries + 1) + MaxRetries + 1
    BY OneMoreReplay
<1>3. /\ B' = B + MaxRetries + 1
      /\ (replays' + 1) * (MaxRetries + 1) = B + MaxRetries + 1 + MaxRetries + 1
    BY <1>1, <1>2
<1>4. \A i \in Ids : /\ runs[i] \in Nat
                     /\ runs[i] <= B + MaxRetries + 1
                     /\ state[i] = "pending" => runs[i] <= B + retries[i]
                     /\ state[i] = "running" => runs[i] <= B + retries[i] + 1
    BY <1>2 DEF StartsInv, StartsBounded, StartsOK
<1> HIDE DEF B
<1>5. StartsBounded'
    BY <1>1, <1>2, <1>3, <1>4 DEF StartsBounded
<1>6. \A i \in Ids : /\ state'[i] = "pending" => runs'[i] <= B' + retries'[i]
                     /\ state'[i] = "running" => runs'[i] <= B' + retries'[i] + 1
    BY <1>1, <1>2, <1>3, <1>4
<1>7. StartsOK(state, retries)'
    BY <1>6 DEF StartsOK, B
<1>8. QED
    BY <1>1, <1>5, <1>7, ShownStarts DEF StartsInv, UnusedUnstarted

LEMMA NextStarts ==
    ASSUME SInv, StartsInv, SimNext
    PROVE  StartsInv'
<1>1. ASSUME NEW i \in Ids, NEW h \in Hashes, FormSubmit(i, h)
      PROVE  StartsInv'
    <2>1. /\ state' = [state EXCEPT ![i] = "pending"]
          /\ hash' = [hash EXCEPT ![i] = h]
          /\ UNCHANGED retries
          /\ UNCHANGED runs
          /\ UNCHANGED replays
          /\ seen' = Rendered'
        BY <1>1 DEF FormSubmit, NewJob, Click
    <2>2. runs[i] = 0 /\ retries[i] \in Nat
        BY <1>1 DEF FormSubmit, NewJob, StartsInv, UnusedUnstarted, SInv, SimTypeOK
    <2>3. replays * (MaxRetries + 1) \in Nat
        BY OneMoreReplay, SimulatorAssumption DEF SInv, SimTypeOK
    <2>4. StartsOK(state, retries)'
        BY <2>1, <2>2, <2>3 DEF StartsOK, StartsInv, SInv, SimTypeOK
    <2>5. StartsBounded' /\ UnusedUnstarted'
        BY <2>1, SimulatorAssumption
        DEF StartsInv, StartsBounded, UnusedUnstarted, SInv, SimTypeOK
    <2>6. QED
        BY <2>1, <2>4, <2>5, ShownStarts
<1>2. CASE ClearQueue \/ ToggleLock
    <2>1. /\ seen' = Rendered'
          /\ UNCHANGED retries
          /\ UNCHANGED runs
          /\ UNCHANGED replays
          /\ UNCHANGED hash
        BY <1>2 DEF ClearQueue, ToggleLock, Click, history
    <2>2. \A i \in Ids : state'[i] \in {"pending", "running"} => state'[i] = state[i]
        BY <1>2 DEF ClearQueue, ToggleLock
    <2>3. StartsOK(state, retries)' /\ StartsBounded' /\ UnusedUnstarted'
        BY <2>1, <2>2 DEF StartsOK, StartsInv, StartsBounded, UnusedUnstarted
    <2>4. QED
        BY <2>1, <2>3, ShownStarts
<1>3. CASE Render
    BY <1>3 DEF Render, Rendered, page, history, StartsInv, StartsBounded, StartsOK,
           UnusedUnstarted
<1>4. QED
    BY <1>1, <1>2, <1>3, DLQReplayStarts, TickStarts, FinishStarts DEF SimNext

\* However old the counts that a tick writes back, no job is started more often
\* than its retries and the replays allow.
THEOREM SimStartsBounded == SimSpec => []StartsBounded
<1>1. SInv /\ StartsInv /\ [SimNext]_vars => StartsInv'
    <2> SUFFICES ASSUME SInv, StartsInv, [SimNext]_vars PROVE StartsInv'
        OBVIOUS
    <2>1. CASE UNCHANGED vars
        BY <2>1 DEF vars, page, history, StartsInv, StartsBounded, StartsOK,
               UnusedUnstarted
    <2>2. QED
        BY <2>1, NextStarts
<1>2. StartsInv => StartsBounded
    BY DEF StartsInv
<1>3. QED
    BY <1>1, <1>2, InitStarts, SimInvariance, PTL DEF SimSpec

=============================================================================
