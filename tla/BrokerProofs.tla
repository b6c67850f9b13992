---------------------------- MODULE BrokerProofs ----------------------------
(***************************************************************************)
(* The HTTP handlers add no behaviour to the process below them, so that   *)
(* all that is proved of WorkerPool holds of the broker, and what they     *)
(* answer stays true.                                                      *)
(***************************************************************************)
EXTENDS Broker, WorkerPoolProofs, FiniteSetTheorems

\* A call that was made has a request and an id.
CallsOK ==
    /\ BrokerTypeOK
    /\ \A c \in Clients : call[c].stage # "idle"
                            => call[c].req \in Requests /\ call[c].id \in Ids

-----------------------------------------------------------------------------
(* The calls stay well-typed *)

LEMMA InitCallsOK == BrokerInit => CallsOK
    BY DEF BrokerInit, CallsOK, BrokerTypeOK, NoCall, CallStage, Counters

LEMMA GotoKeepsCalls ==
    ASSUME CallsOK, NEW c \in Clients, NEW from \in CallStage \ {"idle"},
           NEW to \in CallStage, CallGoto(c, from, to)
    PROVE  CallsOK'
<1>1. call' = [call EXCEPT ![c].stage = to]
    BY DEF CallGoto
<1>2. UNCHANGED scrapeVars
    BY DEF CallGoto
<1>3. call[c].stage = from
    BY DEF CallGoto
<1>4. QED
    BY <1>1, <1>2, <1>3 DEF CallsOK, BrokerTypeOK, scrapeVars

LEMMA CountersType ==
    ASSUME NEW S \in SUBSET Rows
    PROVE  CountersOf(S) \in Counters
<1>1. \A T \in SUBSET Ids : Cardinality(T) \in Nat
    BY BrokerAssumption, FS_Subset, FS_CardinalityType
<1>2. /\ {i \in S : state[i] = "done"} \in SUBSET Ids
      /\ {i \in S : anomaly[i]} \in SUBSET Ids
    BY DEF Rows
<1>3. /\ Cardinality({i \in S : state[i] = "done"}) \in Nat
      /\ Cardinality({i \in S : anomaly[i]}) \in Nat
    BY <1>1, <1>2
<1>4. QED
    BY <1>3 DEF CountersOf, Counters

LEMMA HigherIsHigher ==
    ASSUME NEW m \in Nat, NEW n \in Nat
    PROVE  /\ Higher(m, n) \in {m, n}
           /\ Higher(m, n) >= m
           /\ Higher(m, n) >= n
    BY DEF Higher

LEMMA ShowCountersType ==
    ASSUME CallsOK, NEW s \in Scrapers, ShowCounters(s)
    PROVE  /\ reading[s] \in Counters
           /\ exposed \in Counters
           /\ exposed' \in Counters
           /\ exposed'.processed \in {exposed.processed, reading[s].processed}
           /\ exposed'.anomalies \in {exposed.anomalies, reading[s].anomalies}
<1>1. reading[s] \in Counters /\ exposed \in Counters
    BY DEF ShowCounters, CallsOK, BrokerTypeOK
<1>2. /\ exposed'.processed = Higher(exposed.processed, reading[s].processed)
      /\ exposed'.anomalies = Higher(exposed.anomalies, reading[s].anomalies)
      /\ exposed' = [processed |-> exposed'.processed, anomalies |-> exposed'.anomalies]
    BY DEF ShowCounters
<1>3. /\ exposed'.processed \in {exposed.processed, reading[s].processed}
      /\ exposed'.anomalies \in {exposed.anomalies, reading[s].anomalies}
    BY <1>1, <1>2, HigherIsHigher DEF Counters
<1>4. QED
    BY <1>1, <1>2, <1>3 DEF Counters

LEMMA NextCallsOK ==
    ASSUME CallsOK, BrokerNext
    PROVE  CallsOK'
<1> USE DEF CallsOK, BrokerTypeOK
<1>1. ASSUME NEW c \in Clients, NEW q \in Requests, NEW i \in Ids, Admit(c, q, i)
      PROVE  CallsOK'
    BY <1>1 DEF Admit, CallStage, InHandler, scrapeVars
<1>2. ASSUME NEW c \in Clients, Store(c) \/ Refuse(c) \/ StoreError(c)
      PROVE  CallsOK'
    <2>1. \E to \in {"stored", "refused", "failed"} : CallGoto(c, "admitted", to)
        BY <1>2 DEF Store, Refuse, StoreError
    <2>2. QED
        BY <2>1, GotoKeepsCalls DEF CallStage, InHandler
<1>3. ASSUME NEW c \in Clients, Answer(c)
      PROVE  CallsOK'
    BY <1>3, GotoKeepsCalls DEF Answer, CallStage, InHandler
<1>4. ASSUME NEW c \in Clients, LoseAnswer(c)
      PROVE  CallsOK'
    BY <1>4 DEF LoseAnswer, NoCall, CallStage, scrapeVars
<1>5. ASSUME NEW s \in Scrapers, NEW S \in SUBSET Rows, ReadJobs(s, S)
      PROVE  CallsOK'
    BY <1>5, CountersType DEF ReadJobs
<1>6. ASSUME NEW s \in Scrapers, ShowCounters(s)
      PROVE  CallsOK'
    <2>1. exposed' \in Counters
        BY <1>6, ShowCountersType
    <2>2. QED
        BY <1>6, <2>1 DEF ShowCounters
<1>7. CASE CallsEnd
    BY <1>7 DEF CallsEnd, NoCall, CallStage, InHandler
<1>8. CASE UNCHANGED brokerVars
    BY <1>8 DEF brokerVars, scrapeVars
<1>9. QED
    BY <1>1, <1>2, <1>3, <1>4, <1>5, <1>6, <1>7, <1>8 DEF BrokerNext, Elsewhere

-----------------------------------------------------------------------------
(* Every step of the broker is a step of the process or leaves it alone *)

LEMMA BrokerStep ==
    ASSUME CallsOK, [BrokerNext]_bvars
    PROVE  [Next]_vars
<1>1. CASE UNCHANGED bvars
    BY <1>1 DEF bvars
<1>2. ASSUME NEW c \in Clients, Store(c)
      PROVE  Next
    <2>1. call[c].req \in Requests /\ call[c].id \in Ids
        BY <1>2 DEF Store, CallGoto, CallsOK
    <2>2. RequestEnqueue(call[c].id, call[c].req)
        BY <1>2 DEF Store
    <2>3. QED
        BY <2>1, <2>2 DEF Next, Client
<1>3. CASE \/ \E c \in Clients, q \in Requests, i \in Ids : Admit(c, q, i)
           \/ \E c \in Clients : Refuse(c) \/ StoreError(c) \/ Answer(c) \/ LoseAnswer(c)
           \/ \E s \in Scrapers, S \in SUBSET Rows : ReadJobs(s, S)
           \/ \E s \in Scrapers : ShowCounters(s)
    BY <1>3 DEF Admit, Refuse, StoreError, Answer, LoseAnswer, ReadJobs, ShowCounters
<1>4. CASE Shutdown \/ Crash \/ Elsewhere
    BY <1>4 DEF Elsewhere, Next, Client
<1>5. QED
    BY <1>1, <1>2, <1>3, <1>4 DEF BrokerNext

LEMMA CallsOKInvariant == BrokerSpec => []CallsOK
<1>1. CallsOK /\ UNCHANGED bvars => CallsOK'
    BY DEF bvars, brokerVars, scrapeVars, CallsOK, BrokerTypeOK
<1>2. QED
    BY <1>1, InitCallsOK, NextCallsOK, PTL DEF BrokerSpec

\* The broker's handlers, whatever they are asked and in whatever order they
\* run, only ever do to the engine and the workers what the process of
\* WorkerPool may do: every theorem about Spec is one about the broker.
THEOREM BrokerImplementsPool == BrokerSpec => Spec
<1>1. BrokerInit => Init
    BY DEF BrokerInit
<1>2. CallsOK /\ [BrokerNext]_bvars => [Next]_vars
    BY BrokerStep
<1>3. QED
    BY <1>1, <1>2, CallsOKInvariant, PTL DEF BrokerSpec, Spec

-----------------------------------------------------------------------------
(* What clients were told *)

\* A row stays, with the request it was made for.
LEMMA RowsKept ==
    ASSUME IInv, [Next]_vars
    PROVE  \A i \in Rows : i \in Rows' /\ req'[i] = req[i]
<1>1. CASE UNCHANGED vars
    BY <1>1 DEF vars, engineVars, tables, insertCols, queueCols, Rows
<1>2. ASSUME NEW i \in Ids, NEW q \in Requests, RequestEnqueue(i, q)
      PROVE  \A k \in Rows : k \in Rows' /\ req'[k] = req[k]
    <2>1. i \notin Rows
        BY <1>2 DEF RequestEnqueue, Enqueue, Insertable
    <2>2. /\ state' = [state EXCEPT ![i] = "pending"]
          /\ req' = [req EXCEPT ![i] = q]
        BY <1>2 DEF RequestEnqueue, Enqueue
    <2>3. state \in [Ids -> JobState \cup {"absent"}]
          /\ req \in [Ids -> Requests \cup {NoRequest}]
        BY DEF IInv, TypeOK, EngineTypeOK
    <2>4. QED
        BY <2>1, <2>2, <2>3 DEF Rows
<1>3. CASE Next /\ ~ \E i \in Ids, q \in Requests : RequestEnqueue(i, q)
    BY <1>3, OnlyEnqueueInserts
<1>4. QED
    BY <1>1, <1>2, <1>3

\* An answer that held holds in the next state too.
LEMMA AnswersStay ==
    ASSUME IInv, [Next]_vars, NEW a, AnswerHolds(a)
    PROVE  /\ a.stage \in {"stored", "accepted"}
                 => a.id \in Rows' /\ req'[a.id] = a.req
           /\ a.stage \in {"refused", "conflict"}
                 => a.id \in Rows' \/ \E i \in Rows' : req'[i].payload = a.req.payload
    BY RowsKept DEF AnswerHolds

Answered == {"stored", "accepted", "refused", "conflict"}

\* One handler's step: the others' answers are those they were.
LEMMA GotoKeepsAnswers ==
    ASSUME IInv, CallsOK, AnswersHold, [Next]_vars, NEW c \in Clients,
           NEW from, NEW to, CallGoto(c, from, to),
           \/ to \notin Answered
           \/ from = "stored" /\ to = "accepted"
           \/ from = "refused" /\ to = "conflict"
    PROVE  AnswersHold'
<1> SUFFICES ASSUME NEW d \in Clients PROVE AnswerHolds(call[d])'
    BY DEF AnswersHold
<1> AnswerHolds(call[d])
    BY DEF AnswersHold
<1>1. CASE d # c
    <2>1. call'[d] = call[d]
        BY <1>1 DEF CallGoto, CallsOK, BrokerTypeOK
    <2>2. QED
        BY <2>1, AnswersStay DEF AnswerHolds
<1>2. CASE d = c
    <2>1. /\ call'[d].stage = to
          /\ call'[d].id = call[d].id
          /\ call'[d].req = call[d].req
          /\ call[d].stage = from
        BY <1>2 DEF CallGoto, CallsOK, BrokerTypeOK
    <2>2. QED
        BY <2>1, AnswersStay DEF AnswerHolds, Answered
<1>3. QED
    BY <1>1, <1>2

LEMMA NextAnswersHold ==
    ASSUME IInv, CallsOK, AnswersHold, [BrokerNext]_bvars
    PROVE  AnswersHold'
<1>0. [Next]_vars
    BY BrokerStep
<1>1. ASSUME NEW c \in Clients, Store(c)
      PROVE  AnswersHold'
    <2> SUFFICES ASSUME NEW d \in Clients PROVE AnswerHolds(call[d])'
        BY DEF AnswersHold
    <2>1. CASE d = c
        <3>1. /\ call'[d].stage = "stored"
              /\ call'[d].id = call[d].id
              /\ call'[d].req = call[d].req
              /\ call[d].id \in Ids
            BY <1>1, <2>1 DEF Store, CallGoto, CallsOK, BrokerTypeOK
        <3>2. call[d].id \in Rows' /\ req'[call[d].id] = call[d].req
            BY <1>1, <2>1, <3>1 DEF Store, RequestEnqueue, Enqueue, Rows, IInv,
                   TypeOK, EngineTypeOK
        <3>3. QED
            BY <3>1, <3>2 DEF AnswerHolds
    <2>2. CASE d # c
        <3>1. call'[d] = call[d]
            BY <1>1, <2>2 DEF Store, CallGoto, CallsOK, BrokerTypeOK
        <3>2. QED
            BY <1>0, <3>1, AnswersStay DEF AnswersHold, AnswerHolds
    <2>3. QED
        BY <2>1, <2>2
<1>2. ASSUME NEW c \in Clients, Refuse(c)
      PROVE  AnswersHold'
    <2> SUFFICES ASSUME NEW d \in Clients PROVE AnswerHolds(call[d])'
        BY DEF AnswersHold
    <2>1. Rows' = Rows /\ req' = req
        BY <1>2 DEF Refuse, vars, engineVars, tables, insertCols, queueCols, Rows
    <2>2. CASE d = c
        <3>1. /\ call'[d].stage = "refused"
              /\ call'[d].id = call[d].id
              /\ call'[d].req = call[d].req
            BY <1>2, <2>2 DEF Refuse, CallGoto, CallsOK, BrokerTypeOK
        <3>2. \/ call[d].id \in Rows
              \/ \E i \in Rows : req[i].payload = call[d].req.payload
            BY <1>2, <2>2 DEF Refuse, Duplicate, Insertable
        <3>3. QED
            BY <2>1, <3>1, <3>2 DEF AnswerHolds
    <2>3. CASE d # c
        <3>1. call'[d] = call[d]
            BY <1>2, <2>3 DEF Refuse, CallGoto, CallsOK, BrokerTypeOK
        <3>2. QED
            BY <1>0, <3>1, AnswersStay DEF AnswersHold, AnswerHolds
    <2>4. QED
        BY <2>2, <2>3
<1>3. ASSUME NEW c \in Clients, StoreError(c) \/ Answer(c)
      PROVE  AnswersHold'
    BY <1>0, <1>3, GotoKeepsAnswers DEF StoreError, Answer, Answered
<1>4. CASE \/ \E c \in Clients, q \in Requests, i \in Ids : Admit(c, q, i)
           \/ \E c \in Clients : LoseAnswer(c)
           \/ CallsEnd
    <2> SUFFICES ASSUME NEW d \in Clients PROVE AnswerHolds(call[d])'
        BY DEF AnswersHold
    <2>1. call'[d] = call[d] \/ call'[d].stage \notin Answered
        BY <1>4 DEF Admit, LoseAnswer, CallsEnd, NoCall, Answered, CallsOK, BrokerTypeOK
    <2>2. QED
        BY <1>0, <2>1, AnswersStay DEF AnswersHold, AnswerHolds, Answered
<1>5. CASE UNCHANGED call
    <2> SUFFICES ASSUME NEW d \in Clients PROVE AnswerHolds(call[d])'
        BY DEF AnswersHold
    <2>1. QED
        BY <1>0, <1>5, AnswersStay DEF AnswersHold, AnswerHolds
<1>6. QED
    BY <1>1, <1>2, <1>3, <1>4, <1>5 
    DEF BrokerNext, ReadJobs, ShowCounters, Elsewhere, brokerVars, bvars

\* What the broker answered stays true for ever.
THEOREM AnswersAreKept == BrokerSpec => []AnswersHold
<1>1. BrokerInit => AnswersHold
    BY DEF BrokerInit, AnswersHold, AnswerHolds, NoCall
<1>2. IInv /\ CallsOK /\ AnswersHold /\ [BrokerNext]_bvars => AnswersHold'
    BY NextAnswersHold
<1>3. QED
    BY <1>1, <1>2, BrokerImplementsPool, Invariance, CallsOKInvariant, PTL
    DEF BrokerSpec

-----------------------------------------------------------------------------
(* The counters of /metrics *)

DoneRows == {i \in Ids : state[i] = "done"}

AnomalousRows == {i \in Ids : anomaly[i]}

\* Only a job that is done may be anomalous.
AnomaliesAreDone == AnomalousRows \subseteq DoneRows

\* Counters that the table bears out.
BoundedBy(n, done, anomalous) ==
    n.processed <= Cardinality(done) /\ n.anomalies <= Cardinality(anomalous)

\* What was read and what was shown was in the table.
ExposedBounded ==
    /\ BoundedBy(exposed, DoneRows, AnomalousRows)
    /\ \A s \in Scrapers : reading[s] # NoReading
                            => BoundedBy(reading[s], DoneRows, AnomalousRows)

\* Rows are only added to what the counters count.
LEMMA CountedStay ==
    ASSUME IInv, AnomaliesAreDone, [Next]_vars
    PROVE  /\ DoneRows \subseteq DoneRows'
           /\ AnomalousRows \subseteq AnomalousRows'
           /\ AnomaliesAreDone'
<1>1. DoneRows \subseteq DoneRows'
    <2>1. CASE Next
        <3>1. \A i \in Ids : state[i] = "done" => state'[i] = "done"
            BY <2>1, StepAlongLifecycle DEF Lifecycle
        <3>2. QED
            BY <3>1 DEF DoneRows
    <2>2. CASE UNCHANGED vars
        BY <2>2 DEF vars, engineVars, tables, queueCols, DoneRows
    <2>3. QED
        BY <2>1, <2>2
<1>2. CASE UNCHANGED anomaly
    BY <1>1, <1>2 DEF AnomalousRows, AnomaliesAreDone
<1>3. ASSUME NEW w \in Workers, NEW cpu \in Durations, CompleteJob(w, cpu)
      PROVE  AnomalousRows \subseteq AnomalousRows' /\ AnomaliesAreDone'
    <2>1. held[w] \in Ids /\ state[held[w]] = "reserved"
        BY <1>3, HeldRow DEF CompleteJob, Report, Goto
    <2>2. /\ state' = [state EXCEPT ![held[w]] = "done"]
          /\ anomaly' = [anomaly EXCEPT ![held[w]] = IsAnomaly(held[w], cpu)]
        BY <1>3 DEF CompleteJob, Complete
    <2>3. \A i \in Ids : i # held[w] => (anomaly'[i] <=> anomaly[i])
        BY <2>2, Zenon DEF IInv, TypeOK, EngineTypeOK
    <2>4. held[w] \in DoneRows' /\ held[w] \notin AnomalousRows
        BY <2>1, <2>2 DEF DoneRows, AnomaliesAreDone, IInv, TypeOK, EngineTypeOK
    <2>5. AnomalousRows \subseteq AnomalousRows'
        BY <2>3, <2>4, Zenon DEF AnomalousRows
    <2>6. AnomalousRows' \subseteq AnomalousRows \cup {held[w]}
        BY <2>3, Zenon DEF AnomalousRows
    <2>7. QED
        BY <1>1, <2>4, <2>5, <2>6 DEF AnomaliesAreDone
<1>4. CASE Next /\ ~ \E w \in Workers, cpu \in Durations : CompleteJob(w, cpu)
    <2>1. UNCHANGED anomaly
        BY <1>4
        DEF Next, Worker, Client, StartReserve, RecomputePriorities, PickJob,
            SelectJob, FindNothing, ReserveError, NoReservation, SendBusy,
            FailJob, Fail, ReportError, SendIdle, StopWorker, RequestEnqueue,
            Enqueue, RequestReplay, DLQReplay, RequestRules, SetRules,
            TimePasses, Tick, Restart, NewEngine, Heartbeat, Receive, Signal,
            StopPool, Shutdown, Crash, ProcessEnds, engineVars, tables,
            resultCols
    <2>2. QED
        BY <1>2, <2>1
<1>5. CASE UNCHANGED vars
    BY <1>2, <1>5 DEF vars, engineVars, tables, resultCols
<1>6. QED
    BY <1>1, <1>2, <1>3, <1>4, <1>5

LEMMA MoreCounted ==
    ASSUME NEW S \in SUBSET Ids, NEW T \in SUBSET Ids, S \subseteq T
    PROVE  /\ Cardinality(S) \in Nat
           /\ Cardinality(T) \in Nat
           /\ Cardinality(S) <= Cardinality(T)
    BY BrokerAssumption, FS_Subset, FS_CardinalityType

\* What was in the table stays in it.
LEMMA StaysBounded ==
    ASSUME NEW D \in SUBSET Ids, NEW E \in SUBSET Ids, D \subseteq E,
           NEW A \in SUBSET Ids, NEW B \in SUBSET Ids, A \subseteq B,
           NEW n \in Counters, BoundedBy(n, D, A)
    PROVE  BoundedBy(n, E, B)
<1>1. /\ Cardinality(D) \in Nat /\ Cardinality(E) \in Nat
      /\ Cardinality(D) <= Cardinality(E)
    BY MoreCounted
<1>2. /\ Cardinality(A) \in Nat /\ Cardinality(B) \in Nat
      /\ Cardinality(A) <= Cardinality(B)
    BY MoreCounted
<1>3. n.processed \in Nat /\ n.anomalies \in Nat
    BY DEF Counters
<1>4. QED
    BY <1>1, <1>2, <1>3 DEF BoundedBy

\* A listing shows no more than is in the table.
LEMMA ListingBounded ==
    ASSUME NEW S \in SUBSET Rows
    PROVE  BoundedBy(CountersOf(S), DoneRows, AnomalousRows)
<1>1. /\ {i \in S : state[i] = "done"} \subseteq DoneRows
      /\ {i \in S : anomaly[i]} \subseteq AnomalousRows
    BY DEF DoneRows, AnomalousRows, Rows
<1>2. /\ Cardinality({i \in S : state[i] = "done"}) <= Cardinality(DoneRows)
      /\ Cardinality({i \in S : anomaly[i]}) <= Cardinality(AnomalousRows)
    BY <1>1, MoreCounted DEF DoneRows, AnomalousRows
<1>3. QED
    BY <1>2 DEF BoundedBy, CountersOf

LEMMA NextExposedBounded ==
    ASSUME IInv, CallsOK, AnomaliesAreDone, ExposedBounded, [BrokerNext]_bvars
    PROVE  ExposedBounded'
<1>1. /\ DoneRows \subseteq DoneRows'
      /\ AnomalousRows \subseteq AnomalousRows'
    BY BrokerStep, CountedStay
<1>2. /\ DoneRows \in SUBSET Ids /\ DoneRows' \in SUBSET Ids
      /\ AnomalousRows \in SUBSET Ids /\ AnomalousRows' \in SUBSET Ids
    BY DEF DoneRows, AnomalousRows
<1>3. /\ exposed \in Counters
      /\ reading \in [Scrapers -> Counters \cup {NoReading}]
    BY DEF CallsOK, BrokerTypeOK
<1>4. \A n \in Counters : BoundedBy(n, DoneRows, AnomalousRows)
                            => BoundedBy(n, DoneRows', AnomalousRows')
    BY <1>1, <1>2, StaysBounded
<1>5. CASE UNCHANGED scrapeVars
    BY <1>3, <1>4, <1>5 DEF ExposedBounded, scrapeVars
<1>6. ASSUME NEW s \in Scrapers, NEW S \in SUBSET Rows, ReadJobs(s, S)
      PROVE  ExposedBounded'
    <2>1. /\ exposed' = exposed
          /\ reading' = [reading EXCEPT ![s] = CountersOf(S)]
        BY <1>6 DEF ReadJobs
    <2>2. /\ BoundedBy(CountersOf(S), DoneRows, AnomalousRows)
          /\ CountersOf(S) \in Counters
        BY ListingBounded, CountersType
    <2>3. QED
        BY <1>3, <1>4, <2>1, <2>2 DEF ExposedBounded
<1>7. ASSUME NEW s \in Scrapers, ShowCounters(s)
      PROVE  ExposedBounded'
    <2>1. /\ exposed' \in Counters
          /\ exposed'.processed \in {exposed.processed, reading[s].processed}
          /\ exposed'.anomalies \in {exposed.anomalies, reading[s].anomalies}
        BY <1>7, ShowCountersType
    <2>2. reading' = [reading EXCEPT ![s] = NoReading] /\ reading[s] # NoReading
        BY <1>7 DEF ShowCounters
    <2>3. BoundedBy(exposed', DoneRows, AnomalousRows)
        BY <2>1, <2>2 DEF ExposedBounded, BoundedBy
    <2>4. QED
        BY <1>3, <1>4, <2>1, <2>2, <2>3 DEF ExposedBounded
<1>8. CASE CallsEnd
    BY <1>3, <1>4, <1>8 DEF CallsEnd, ExposedBounded
<1>9. QED
    BY <1>5, <1>6, <1>7, <1>8
    DEF BrokerNext, Admit, Store, Refuse, StoreError, Answer, CallGoto,
        LoseAnswer, Elsewhere, brokerVars, bvars

\* A listing of a table that fits into it counts all of the table.
LEMMA ListingCountsAll ==
    ASSUME AnomaliesAreDone, NEW S \in SUBSET Rows, Listed(S),
           Cardinality(Rows) <= ListLimit
    PROVE  /\ CountersOf(S).processed = Cardinality(DoneRows)
           /\ CountersOf(S).anomalies = Cardinality(AnomalousRows)
<1>1. IsFiniteSet(Rows)
    BY BrokerAssumption, FS_Subset DEF Rows
<1>2. S = Rows
    BY <1>1, BrokerAssumption, FS_Subset, FS_CardinalityType DEF Listed
<1>3. {i \in S : state[i] = "done"} = DoneRows
    BY <1>2 DEF Rows, DoneRows
<1>4. {i \in S : anomaly[i]} = AnomalousRows
    BY <1>2 DEF Rows, AnomalousRows, AnomaliesAreDone, DoneRows
<1>5. QED
    BY <1>3, <1>4 DEF CountersOf

\* What a scrape reads is no less than what any scrape showed.
ReadsGrow ==
    \A s \in Scrapers :
        /\ reading[s] = NoReading
        /\ reading'[s] # NoReading
        /\ Cardinality(Rows) <= ListLimit
        => /\ reading'[s].processed >= exposed.processed
           /\ reading'[s].anomalies >= exposed.anomalies

LEMMA NextReadsGrow ==
    ASSUME CallsOK, AnomaliesAreDone, ExposedBounded, BrokerNext
    PROVE  ReadsGrow
<1> SUFFICES ASSUME NEW s \in Scrapers, reading[s] = NoReading,
                    reading'[s] # NoReading, Cardinality(Rows) <= ListLimit
             PROVE  /\ reading'[s].processed >= exposed.processed
                    /\ reading'[s].anomalies >= exposed.anomalies
    BY DEF ReadsGrow
<1>1. reading \in [Scrapers -> Counters \cup {NoReading}]
    BY DEF CallsOK, BrokerTypeOK
<1>2. PICK t \in Scrapers, S \in SUBSET Rows : ReadJobs(t, S)
    BY <1>1
    DEF BrokerNext, Admit, Store, Refuse, StoreError, Answer, CallGoto,
        LoseAnswer, ShowCounters, CallsEnd, Elsewhere, brokerVars, scrapeVars
<1>3. Listed(S) /\ reading' = [reading EXCEPT ![t] = CountersOf(S)]
    BY <1>2 DEF ReadJobs
<1>4. reading'[s] = CountersOf(S)
    BY <1>1, <1>3
<1>5. /\ reading'[s].processed = Cardinality(DoneRows)
      /\ reading'[s].anomalies = Cardinality(AnomalousRows)
    BY <1>3, <1>4, ListingCountsAll
<1>6. /\ exposed.processed <= Cardinality(DoneRows)
      /\ exposed.anomalies <= Cardinality(AnomalousRows)
    BY DEF ExposedBounded, BoundedBy
<1>7. /\ Cardinality(DoneRows) \in Nat /\ Cardinality(AnomalousRows) \in Nat
      /\ exposed.processed \in Nat /\ exposed.anomalies \in Nat
    BY MoreCounted DEF DoneRows, AnomalousRows, CallsOK, BrokerTypeOK, Counters
<1>8. QED
    BY <1>5, <1>6, <1>7

\* A scrape never counts less than one that was answered before, while the table
\* fits into the listing: what is counted stays in the table, through replays,
\* failures and restarts.
THEOREM CountersGrow == BrokerSpec => CountersNeverFall
<1>1. BrokerInit => AnomaliesAreDone /\ ExposedBounded
    <2> SUFFICES ASSUME BrokerInit PROVE AnomaliesAreDone /\ ExposedBounded
        OBVIOUS
    <2>1. AnomalousRows = {} /\ DoneRows = {}
        BY DEF BrokerInit, Init, EngineInit, AnomalousRows, DoneRows
    <2>2. QED
        BY <2>1, FS_EmptySet
        DEF BrokerInit, AnomaliesAreDone, ExposedBounded, BoundedBy
<1>2. IInv /\ CallsOK /\ AnomaliesAreDone /\ ExposedBounded /\ [BrokerNext]_bvars
        => AnomaliesAreDone' /\ ExposedBounded'
    BY BrokerStep, CountedStay, NextExposedBounded
<1>3. CallsOK /\ AnomaliesAreDone /\ ExposedBounded /\ [BrokerNext]_bvars
        => [ReadsGrow]_bvars
    BY NextReadsGrow
<1>4. [][ReadsGrow]_bvars <=> CountersNeverFall
    BY DEF ReadsGrow, CountersNeverFall
<1>5. QED
    BY <1>1, <1>2, <1>3, <1>4, BrokerImplementsPool, Invariance, CallsOKInvariant,
       PTL DEF BrokerSpec

=============================================================================
