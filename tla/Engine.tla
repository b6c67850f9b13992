------------------------------- MODULE Engine -------------------------------
(***************************************************************************)
(* The queue engine of queue/queue.go over the tables of queue/schema.go.  *)
(*                                                                         *)
(* Every exported operation holds Engine.mu from its first statement to    *)
(* its last, so each critical section is one action; Reserve has two       *)
(* (RecomputePriorities, then the selection) and is two actions that the   *)
(* callers compose.  A column of the jobs table is a variable, a function  *)
(* on the job ids; state "absent" stands for an id without a row.  Columns *)
(* nothing decides on (last_error, reserved_at, completed_at) are left     *)
(* out.                                                                    *)
(*                                                                         *)
(* The wall clock has a second, now, and a tenth of that second, part.  A  *)
(* timestamp is stored as RFC3339, which keeps the second and drops the    *)
(* part, and is compared as text, which orders the seconds as long as the  *)
(* zone's offset stays the same.                                           *)
(***************************************************************************)
EXTENDS Priority, FiniteSets

CONSTANTS
    Ids,              \* job ids the broker may draw
    Payloads,         \* payloads; their hashes are taken to be distinct
    Contexts,         \* business contexts
    BasePriorities,   \* base priorities of requests
    Requests,         \* enqueue requests that passed the broker's checks
    NoRequest,        \* the request of an id without a row
    RuleSets,         \* rule lists an operator may install
    DefaultRules,     \* the rule list of a freshly opened engine
    Durations,        \* measured execution times, in halves of a second
    Parts,            \* tenths of a second at which something may happen
    MaxTime           \* bound on the clock

ASSUME EngineAssumption ==
    /\ BasePriorities \subseteq Int
    /\ Requests \subseteq [payload : Payloads, context : Contexts,
                           base : BasePriorities, maxRetries : Int]
    /\ NoRequest \notin Requests
    /\ \A r \in RuleSets : IsRuleList(r)
    /\ DefaultRules \in RuleSets
    /\ Durations \subseteq Nat
    /\ Parts \subseteq 0 .. 9
    /\ 0 \in Parts
    /\ MaxTime \in Nat

VARIABLES
    req,          \* payload, context, base_priority, max_retries
    createdAt,    \* created_at
    predicted,    \* predicted_time, fixed when the row is inserted
    state,        \* state
    score,        \* priority_score
    retries,      \* retries_count
    runAt,        \* run_at
    realCpu,      \* real_cpu_time
    anomaly,      \* is_anomaly
    jobMetrics,   \* table job_metrics: count executions lasting sum in total
    rules,        \* Engine.rules, in memory only
    now,          \* the wall clock: seconds
    part          \* and tenths of the current second

insertCols  == <<req, createdAt, predicted>>
queueCols   == <<state, score, retries, runAt>>
resultCols  == <<realCpu, anomaly>>
tables      == <<insertCols, queueCols, resultCols, jobMetrics>>
engineVars  == <<tables, rules, now, part>>

-----------------------------------------------------------------------------
(* Rows *)

JobState   == {"pending", "reserved", "running", "done", "failed", "dead"}
Active     == {"pending", "reserved", "running"}
Rows       == {i \in Ids : state[i] # "absent"}
Prediction == [sum : Nat, count : Nat]
NoMetric   == [sum |-> 0, count |-> 0]

EngineTypeOK ==
    /\ state \in [Ids -> JobState \cup {"absent"}]
    /\ req \in [Ids -> Requests \cup {NoRequest}]
    /\ \A i \in Rows : req[i] \in Requests
    /\ createdAt \in [Ids -> 0 .. MaxTime]
    /\ predicted \in [Ids -> Prediction]
    /\ score \in [Ids -> Int]
    /\ retries \in [Ids -> Nat]
    /\ runAt \in [Ids -> Int]
    /\ realCpu \in [Ids -> Nat]
    /\ anomaly \in [Ids -> BOOLEAN]
    /\ jobMetrics \in [Contexts -> Prediction]
    /\ rules \in RuleSets
    /\ now \in 0 .. MaxTime
    /\ part \in Parts

EngineInit ==
    /\ state = [i \in Ids |-> "absent"]
    /\ req = [i \in Ids |-> NoRequest]
    /\ createdAt = [i \in Ids |-> 0]
    /\ predicted = [i \in Ids |-> NoMetric]
    /\ score = [i \in Ids |-> 0]
    /\ retries = [i \in Ids |-> 0]
    /\ runAt = [i \in Ids |-> 0]
    /\ realCpu = [i \in Ids |-> 0]
    /\ anomaly = [i \in Ids |-> FALSE]
    /\ jobMetrics = [c \in Contexts |-> NoMetric]
    /\ rules = DefaultRules
    /\ now = 0
    /\ part = 0

-----------------------------------------------------------------------------
(* Enqueue *)

\* getPredictedTime: the context's average, 1.5 s before its first execution.
\* An average is kept as a total and a count, in halves of a second.
PredictedTime(c) ==
    IF jobMetrics[c].count = 0 THEN [sum |-> 3, count |-> 1] ELSE jobMetrics[c]

\* The query for an active row with the payload's hash.
Duplicate(p) == \E i \in Rows : req[i].payload = p /\ state[i] \in Active

\* Mutant: no UNIQUE on content_hash, only the primary key.
InsertableById(id, p) == id \notin Rows

\* Mutant: INSERT OR REPLACE, only the hash is looked at.
InsertableByPayload(id, p) == \A i \in Rows : req[i].payload # p

\* The constraints an INSERT meets: id is the primary key and content_hash is
\* unique over all rows, whatever their state.
Insertable(id, p) == id \notin Rows /\ \A i \in Rows : req[i].payload # p

\* Mutant: the stored score is the base priority until the next Reserve.
BaseScore(q) == 100 * q.base

\* The age of a new job is zero: created_at is truncated in the table only.
InitialScore(q) == ComputePriorityScore(q.context, q.base, 0, rules)

Enqueue(id, q) ==
    /\ ~Duplicate(q.payload)
    /\ Insertable(id, q.payload)
    /\ req' = [req EXCEPT ![id] = q]
    /\ createdAt' = [createdAt EXCEPT ![id] = now]
    /\ predicted' = [predicted EXCEPT ![id] = PredictedTime(q.context)]
    /\ state' = [state EXCEPT ![id] = "pending"]
    /\ score' = [score EXCEPT ![id] = InitialScore(q)]
    /\ retries' = [retries EXCEPT ![id] = 0]
    /\ runAt' = [runAt EXCEPT ![id] = now]
    /\ UNCHANGED <<resultCols, jobMetrics, rules, now, part>>

-----------------------------------------------------------------------------
(* Reserve: two critical sections *)

Clock == 10 * now + part

ScoreAt(i, age) == ComputePriorityScore(req[i].context, req[i].base, age, rules)

\* The exact time now less a created_at that was stored without its part.
CurrentScore(i) == ScoreAt(i, Clock - 10 * createdAt[i])

RecomputePriorities ==
    /\ score' = [i \in Ids |->
                    IF state[i] = "pending" THEN CurrentScore(i) ELSE score[i]]
    /\ UNCHANGED <<insertCols, state, retries, runAt, resultCols, jobMetrics,
                   rules, now, part>>

\* Mutant: run_at < now.
EligibleLater == {i \in Ids : state[i] = "pending" /\ runAt[i] < now}

\* Mutant: the query also matches the rows that are being executed.
EligibleAnyActive == {i \in Ids : state[i] \in Active /\ runAt[i] <= now}

Eligible == {i \in Ids : state[i] = "pending" /\ runAt[i] <= now}

\* Mutant: ORDER BY run_at ASC.
RanksByTime(i, k) == runAt[i] <= runAt[k]

\* ORDER BY priority_score DESC, run_at ASC
RanksBefore(i, k) ==
    score[i] > score[k] \/ (score[i] = score[k] /\ runAt[i] <= runAt[k])

SelectJob(i) ==
    /\ i \in Eligible
    /\ \A k \in Eligible : RanksBefore(i, k)
    /\ state' = [state EXCEPT ![i] = "reserved"]
    /\ UNCHANGED <<insertCols, score, retries, runAt, resultCols, jobMetrics,
                   rules, now, part>>

-----------------------------------------------------------------------------
(* Complete and Fail: the UPDATEs name the row only, not the state it is in *)

\* cpuDuration > 2.0 * predicted
IsAnomaly(i, cpu) == cpu * predicted[i].count > 2 * predicted[i].sum

\* Mutant: execution_count stays what the first execution made it.
AverageWithoutCount(m, cpu) ==
    [sum |-> m.sum + cpu, count |-> IF m.count = 0 THEN 1 ELSE m.count]

\* (avg * count + current) / (count + 1), or the first execution's duration.
MovingAverage(m, cpu) == [sum |-> m.sum + cpu, count |-> m.count + 1]

Complete(i, cpu) ==
    LET c == req[i].context IN
    /\ state' = [state EXCEPT ![i] = "done"]
    /\ realCpu' = [realCpu EXCEPT ![i] = cpu]
    /\ anomaly' = [anomaly EXCEPT ![i] = IsAnomaly(i, cpu)]
    /\ jobMetrics' = [jobMetrics EXCEPT ![c] = MovingAverage(jobMetrics[c], cpu)]
    /\ UNCHANGED <<insertCols, score, retries, runAt, rules, now, part>>

\* Mutant: linear backoff.
LinearBackoff(n) == n

\* Mutant: the partial second is rounded up.
BackoffRoundedUp(n) == 2 ^ n + 1

\* Seconds until the n-th retry.
Backoff(n) == 2 ^ n

\* Within the retries of any request, a backoff is at least a second.
ASSUME BackoffAssumption ==
    \A q \in Requests : \A n \in 1 .. q.maxRetries : Backoff(n) > 0

\* Mutant: the count before this failure is compared.
RetriesLeftBefore(i, n) == n - 1 <= req[i].maxRetries

RetriesLeft(i, n) == n <= req[i].maxRetries

\* The part of the second in which the job failed is lost: run_at is the second
\* of the failure plus the backoff.
Fail(i) ==
    LET n == retries[i] + 1 IN
    /\ retries' = [retries EXCEPT ![i] = n]
    /\ \/ /\ RetriesLeft(i, n)
          /\ state' = [state EXCEPT ![i] = "pending"]
          /\ runAt' = [runAt EXCEPT ![i] = now + Backoff(n)]
       \/ /\ ~RetriesLeft(i, n)
          /\ state' = [state EXCEPT ![i] = "dead"]
          /\ UNCHANGED runAt
    /\ UNCHANGED <<insertCols, score, resultCols, jobMetrics, rules, now, part>>

-----------------------------------------------------------------------------
(* Operator requests, the clock, and reopening the database *)

\* Mutant: every finished row is replayed.
Finished(i) == state[i] \in {"dead", "done"}

Replayable(i) == state[i] = "dead"

DLQReplay ==
    /\ state' = [i \in Ids |-> IF Replayable(i) THEN "pending" ELSE state[i]]
    /\ retries' = [i \in Ids |-> IF Replayable(i) THEN 0 ELSE retries[i]]
    /\ runAt' = [i \in Ids |-> IF Replayable(i) THEN now ELSE runAt[i]]
    /\ UNCHANGED <<insertCols, score, resultCols, jobMetrics, rules, now, part>>

SetRules(r) == rules' = r /\ UNCHANGED <<tables, now, part>>

\* Mutant: the rules of a new engine are left empty.
NewEngineWithoutRules == rules' = <<>> /\ UNCHANGED <<tables, now, part>>

\* NewEngine on an existing database: CREATE TABLE IF NOT EXISTS keeps every
\* row as it was, and the rules are the defaults again.
NewEngine == rules' = DefaultRules /\ UNCHANGED <<tables, now, part>>

\* Some time passes within the second, or the next second begins.
Tick ==
    /\ part' \in Parts
    /\ \/ now' = now /\ part' > part
       \/ now < MaxTime /\ now' = now + 1
    /\ UNCHANGED <<tables, rules>>

=============================================================================
