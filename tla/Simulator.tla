----------------------------- MODULE Simulator -----------------------------
(***************************************************************************)
(* The simulator of the web page (src/App.tsx): a second implementation of *)
(* the queue, in the state of a React component.                           *)
(*                                                                         *)
(* Its callbacks read the jobs, workers and flags of the render they were  *)
(* created in, and write in two ways: setJobs(f) applies f to the newest   *)
(* value, setJobs(v) replaces it.  The timer's callback replaces jobs and  *)
(* workers by values computed from what it read, so whatever was written   *)
(* between that render and the tick is lost.                               *)
(*                                                                         *)
(* React renders a click's update before it runs another callback, and     *)
(* what the timers write some time later; an interval, which each render   *)
(* restarts, fires at most once per render.  Scores, times and payloads    *)
(* are left out: any waiting job may be due and rank first.  So are the    *)
(* counters and banners on display, which no handler reads.                *)
(***************************************************************************)
EXTENDS Integers, FiniteSets, Functions

CONSTANTS
    Ids,              \* job ids, each given out once
    Workers,
    Hashes,           \* the content hashes of payloads
    NoHash,
    SeedHash,         \* the jobs on the page when it loads, with their hashes
    Saturation,       \* busy workers that make the page throttle producers
    MaxRetries,       \* maxRetries of every job
    MaxReplays        \* bound on DLQ replays

ASSUME SimulatorAssumption ==
    /\ NoHash \notin Hashes
    /\ IsInjective(SeedHash)
    /\ DOMAIN SeedHash \subseteq Ids
    /\ Range(SeedHash) \subseteq Hashes
    /\ IsFiniteSet(Workers)
    /\ Saturation \in Nat
    /\ MaxRetries \in Nat
    /\ MaxReplays \in Nat

VARIABLES
    state,            \* jobs, as all updates so far make it: the state of each
    retries,          \* and its retriesCount
    busy,             \* workers, likewise
    backpressureLock,
    seen,             \* the render whose values the callbacks read
    ticked,           \* that render's interval has fired
    executions,       \* jobs whose setTimeout callbacks are still to come
    hash,             \* contentHash of each id given out
    accepted,         \* history: jobs that enqueueJob accepted, until a Clear
    replays,          \* DLQ replays so far
    runs              \* history: executions started for each job

page    == <<state, retries, busy, backpressureLock>>
history == <<hash, accepted, runs>>
vars    == <<page, seen, ticked, executions, history, replays>>

Active   == {"pending", "reserved", "running"}
JobState == {"absent", "pending", "running", "done", "dead"}
Seeds    == DOMAIN SeedHash

SimTypeOK ==
    /\ state \in [Ids -> JobState]
    /\ retries \in [Ids -> 0 .. MaxRetries + 1]
    /\ busy \in [Workers -> BOOLEAN]
    /\ backpressureLock \in BOOLEAN
    /\ seen \in [state : [Ids -> JobState],
                 retries : [Ids -> 0 .. MaxRetries + 1],
                 busy : [Workers -> BOOLEAN],
                 backpressureLock : BOOLEAN]
    /\ ticked \in BOOLEAN
    /\ executions \subseteq [job : Ids, worker : Workers]
    /\ hash \in [Ids -> Hashes \cup {NoHash}]
    /\ accepted \subseteq Ids
    /\ replays \in 0 .. MaxReplays
    /\ runs \in [Ids -> Nat]

\* What a render shows to the callbacks that it creates.
Rendered ==
    [state |-> state, retries |-> retries, busy |-> busy,
     backpressureLock |-> backpressureLock]

SimInit ==
    /\ state = [i \in Ids |-> IF i \in Seeds THEN "pending" ELSE "absent"]
    /\ retries = [i \in Ids |-> 0]
    /\ busy = [w \in Workers |-> FALSE]
    /\ backpressureLock = FALSE
    /\ seen = Rendered
    /\ ticked = FALSE
    /\ executions = {}
    /\ hash = [i \in Ids |-> IF i \in Seeds THEN SeedHash[i] ELSE NoHash]
    /\ accepted = Seeds
    /\ replays = 0
    /\ runs = [i \in Ids |-> 0]

-----------------------------------------------------------------------------
(* enqueueJob, called by the form and by the auto-producer *)

Saturated ==
    \/ Cardinality({w \in Workers : seen.busy[w]}) >= Saturation
    \/ seen.backpressureLock

\* Mutant: only waiting jobs are looked at.
IsQueued(h) == \E i \in Ids : hash[i] = h /\ seen.state[i] = "pending"

IsDuplicate(h) == \E i \in Ids : hash[i] = h /\ seen.state[i] \in Active

\* enqueueJob returns true: job i is made, and left for the caller to list.
NewJob(i, h) ==
    /\ ~Saturated
    /\ hash[i] = NoHash
    /\ ~IsDuplicate(h)
    /\ hash' = [hash EXCEPT ![i] = h]
    /\ accepted' = accepted \cup {i}

-----------------------------------------------------------------------------
(* What a visitor of the page does, rendered at once *)

Click == ticked' = FALSE /\ seen' = Rendered'

FormSubmit(i, h) ==
    /\ NewJob(i, h)
    /\ state' = [state EXCEPT ![i] = "pending"]
    /\ UNCHANGED <<retries, busy, backpressureLock, executions, replays, runs>>
    /\ Click

DLQReplay ==
    /\ replays < MaxReplays
    /\ replays' = replays + 1
    /\ state' = [i \in Ids |-> IF state[i] = "dead" THEN "pending" ELSE state[i]]
    /\ retries' = [i \in Ids |-> IF state[i] = "dead" THEN 0 ELSE retries[i]]
    /\ UNCHANGED <<busy, backpressureLock, executions, history>>
    /\ Click

\* Executions are not cancelled.
ClearQueue ==
    /\ state' = [i \in Ids |-> "absent"]
    /\ accepted' = {}
    /\ UNCHANGED <<retries, busy, backpressureLock, executions, replays, hash, runs>>
    /\ Click

ToggleLock ==
    /\ backpressureLock' = ~seen.backpressureLock
    /\ UNCHANGED <<state, retries, busy, executions, replays, history>>
    /\ Click

-----------------------------------------------------------------------------
(* The interval's callback *)

\* Mutant: a busy worker is given a job too.
AnyWorker == Workers

Idle == {w \in Workers : ~seen.busy[w]}

\* Mutant: jobs that ended are given out again.
NotRunning == {i \in Ids : seen.state[i] \in {"pending", "done", "dead"}}

Waiting == {i \in Ids : seen.state[i] = "pending"}

\* The jobs that this tick gives to idle workers, one each.
Allocations ==
    IF seen.backpressureLock THEN {<<>>}
    ELSE UNION {Injection(W, Waiting) : W \in SUBSET Idle}

\* The auto-producer's job is appended to jobs, which the tick then replaces:
\* of its enqueueJob only the id and the answer remain.
AutoProduce ==
    \/ UNCHANGED <<hash, accepted>>
    \/ \E i \in Ids, h \in Hashes : NewJob(i, h)

Tick ==
    /\ ~ticked
    /\ ticked' = TRUE
    /\ AutoProduce
    /\ \E job \in Allocations :
          LET started == Range(job) IN
          /\ state' = [i \in Ids |->
                          IF i \in started THEN "running" ELSE seen.state[i]]
          /\ busy' = [w \in Workers |-> \/ seen.backpressureLock
                                        \/ seen.busy[w]
                                        \/ w \in DOMAIN job]
          /\ executions' = executions
                \cup {[job |-> job[w], worker |-> w] : w \in DOMAIN job}
          /\ runs' = [i \in Ids |-> IF i \in started THEN runs[i] + 1 ELSE runs[i]]
    /\ retries' = seen.retries
    /\ UNCHANGED <<backpressureLock, seen, replays>>

-----------------------------------------------------------------------------
(* The callback at the end of an execution, which reads the newest values *)

Succeed(i) == state' = [state EXCEPT ![i] = "done"] /\ UNCHANGED retries

\* Mutant: the count before this failure is compared.
RetriesLeftBefore(n) == n - 1 <= MaxRetries

RetriesLeft(n) == n <= MaxRetries

FailOrRetry(i) ==
    LET n == retries[i] + 1 IN
    /\ state' = [state EXCEPT ![i] = IF RetriesLeft(n) THEN "pending" ELSE "dead"]
    /\ retries' = [retries EXCEPT ![i] = n]

Finish(e) ==
    /\ executions' = executions \ {e}
    /\ busy' = [busy EXCEPT ![e.worker] = FALSE]
    /\ \/ /\ state[e.job] = "absent"
          /\ UNCHANGED <<state, retries>>
       \/ /\ state[e.job] # "absent"
          /\ Succeed(e.job) \/ FailOrRetry(e.job)
    /\ UNCHANGED <<backpressureLock, seen, ticked, replays, history>>

\* React renders what the timers' callbacks wrote, and the effect replaces the
\* interval.
Render ==
    /\ seen' = Rendered
    /\ ticked' = FALSE
    /\ UNCHANGED <<page, executions, history, replays>>

-----------------------------------------------------------------------------

SimNext ==
    \/ \E i \in Ids, h \in Hashes : FormSubmit(i, h)
    \/ DLQReplay
    \/ ClearQueue
    \/ ToggleLock
    \/ Tick
    \/ \E e \in executions : Finish(e)
    \/ Render

SimSpec == SimInit /\ [][SimNext]_vars

-----------------------------------------------------------------------------
(* Properties *)

\* However old the values a tick writes back, no job is executed twice at a
\* time and no worker executes two; a job in execution is listed as running
\* unless it was cleared, so the callback that ends it may trust what it finds.
ExclusiveExecution ==
    /\ \A e \in executions : /\ busy[e.worker]
                             /\ state[e.job] \in {"running", "absent"}
    /\ \A e, f \in executions : e.job = f.job \/ e.worker = f.worker => e = f

\* No job is started more often than 1 + maxRetries times, and as often again
\* after each replay, although a tick may write back an older count.
StartsBounded ==
    \A i \in Ids : runs[i] <= (replays + 1) * (MaxRetries + 1)

\* "Auto-enqueues random jobs to stress test the causal sorting": a job that
\* enqueueJob accepted is in the list until the list is cleared.
AcceptedListed == \A i \in accepted : state[i] # "absent"

\* "If worker is manually locked, force it to stay high load and busy": after a
\* tick without the lock, no worker of a page that never executed a job is busy.
LockReleases ==
    ticked /\ ~seen.backpressureLock /\ (\A i \in Ids : runs[i] = 0)
        => \A w \in Workers : ~busy[w]

=============================================================================
