------------------------------- MODULE Broker -------------------------------
(***************************************************************************)
(* The HTTP handlers of broker/broker.go, over the process of WorkerPool.  *)
(*                                                                         *)
(* A POST /enqueue is three steps, as anything may happen between them:    *)
(* the handler decodes the request and draws an id from the clock, the     *)
(* engine stores or refuses it, and the answer reaches the client or not.  *)
(* GET /metrics is two, the listing and the answer, so that scrapes may be *)
(* answered in another order than they read the table.  The other handlers *)
(* make one call each.                                                     *)
(*                                                                         *)
(* producerThrottled is never set (evaluateBackpressure counts nothing),   *)
(* so the answer 429 is left out; so are the requests that are malformed   *)
(* or only read, which change nothing.                                     *)
(***************************************************************************)
EXTENDS WorkerPool, FiniteSets

CONSTANTS
    Clients,          \* connections, each with one request at a time
    Scrapers,         \* connections of those who scrape /metrics
    NoReading,        \* what a scraper holds that is not being answered
    ListLimit         \* rows that handleMetrics reads

Counters == [processed : Nat, anomalies : Nat]

ASSUME BrokerAssumption ==
    /\ ListLimit \in Nat \ {0}
    /\ IsFiniteSet(Ids)
    /\ NoReading \notin Counters

VARIABLES
    call,             \* what each client last asked for and knows about it
    reading,          \* what the scrape being handled for each scraper counted
    exposed           \* history: the highest counters that /metrics showed

scrapeVars == <<reading, exposed>>
brokerVars == <<call, scrapeVars>>
bvars      == <<vars, brokerVars>>

\* idle: knows nothing; the next four: the handler is at work; the last three:
\* answered with 200, with 409 for a duplicate, and with 409 and the text of a
\* database error.
InHandler == {"admitted", "stored", "refused", "failed"}
CallStage == InHandler \cup {"idle", "accepted", "conflict", "error"}

NoCall == [stage |-> "idle", req |-> NoRequest, id |-> NoJob]

BrokerTypeOK ==
    /\ call \in [Clients -> [stage : CallStage, req : Requests \cup {NoRequest},
                             id : Ids \cup {NoJob}]]
    /\ reading \in [Scrapers -> Counters \cup {NoReading}]
    /\ exposed \in Counters

BrokerInit ==
    /\ Init
    /\ call = [c \in Clients |-> NoCall]
    /\ reading = [s \in Scrapers |-> NoReading]
    /\ exposed = [processed |-> 0, anomalies |-> 0]

-----------------------------------------------------------------------------
(* handleEnqueue *)

CallGoto(c, from, to) ==
    /\ call[c].stage = from
    /\ call' = [call EXCEPT ![c].stage = to]
    /\ UNCHANGED scrapeVars

\* The id is the time in nanoseconds: no row has it yet, but another call that
\* is being handled may have drawn it too.
Admit(c, q, i) ==
    /\ proc = "up"
    /\ call[c].stage \notin InHandler
    /\ i \notin Rows
    /\ call' = [call EXCEPT ![c] = [stage |-> "admitted", req |-> q, id |-> i]]
    /\ UNCHANGED <<vars, scrapeVars>>

Store(c) ==
    /\ CallGoto(c, "admitted", "stored")
    /\ RequestEnqueue(call[c].id, call[c].req)

Refuse(c) ==
    /\ proc # "down"
    /\ CallGoto(c, "admitted", "refused")
    /\ \/ Duplicate(call[c].req.payload)
       \/ ~Insertable(call[c].id, call[c].req.payload)
    /\ UNCHANGED vars

\* The transaction rolled back.
StoreError(c) ==
    /\ proc # "down"
    /\ CallGoto(c, "admitted", "failed")
    /\ UNCHANGED vars

Answer(c) ==
    /\ proc = "up"
    /\ \/ CallGoto(c, "stored", "accepted")
       \/ CallGoto(c, "refused", "conflict")
       \/ CallGoto(c, "failed", "error")
    /\ UNCHANGED vars

\* The client has gone, or server.Close() has closed the connection.
LoseAnswer(c) ==
    /\ call[c].stage \in {"stored", "refused", "failed"}
    /\ call' = [call EXCEPT ![c] = NoCall]
    /\ UNCHANGED <<vars, scrapeVars>>

-----------------------------------------------------------------------------
(* handleMetrics *)

\* ORDER BY created_at DESC LIMIT ListLimit
Listed(S) ==
    /\ \/ Cardinality(S) = ListLimit
       \/ Cardinality(S) < ListLimit /\ S = Rows
    /\ \A i \in S, k \in Rows \ S : createdAt[i] >= createdAt[k]

\* completed and anomalies, in a listing of the rows S.
CountersOf(S) ==
    [processed |-> Cardinality({i \in S : state[i] = "done"}),
     anomalies |-> Cardinality({i \in S : anomaly[i]})]

\* ListJobs does not wait for the engine's mutex: it may come between any two
\* steps of a worker.
ReadJobs(s, S) ==
    /\ proc = "up"
    /\ reading[s] = NoReading
    /\ Listed(S)
    /\ reading' = [reading EXCEPT ![s] = CountersOf(S)]
    /\ UNCHANGED <<vars, call, exposed>>

Higher(m, n) == IF m >= n THEN m ELSE n

ShowCounters(s) ==
    /\ proc = "up"
    /\ reading[s] # NoReading
    /\ exposed' = [processed |-> Higher(exposed.processed, reading[s].processed),
                   anomalies |-> Higher(exposed.anomalies, reading[s].anomalies)]
    /\ reading' = [reading EXCEPT ![s] = NoReading]
    /\ UNCHANGED <<vars, call>>

-----------------------------------------------------------------------------

\* Handlers die with the process; what a client was told it still knows.
CallsEnd ==
    /\ call' = [c \in Clients |->
                    IF call[c].stage \in InHandler THEN NoCall ELSE call[c]]
    /\ reading' = [s \in Scrapers |-> NoReading]
    /\ UNCHANGED exposed

Elsewhere ==
    /\ \/ \E w \in Workers : Worker(w)
       \/ RequestReplay
       \/ \E r \in RuleSets : RequestRules(r)
       \/ Heartbeat
       \/ Receive
       \/ TimePasses
       \/ Signal
       \/ StopPool
       \/ Restart
    /\ UNCHANGED brokerVars

BrokerNext ==
    \/ \E c \in Clients, q \in Requests, i \in Ids : Admit(c, q, i)
    \/ \E c \in Clients : Store(c) \/ Refuse(c) \/ StoreError(c)
    \/ \E c \in Clients : Answer(c) \/ LoseAnswer(c)
    \/ \E s \in Scrapers, S \in SUBSET Rows : ReadJobs(s, S)
    \/ \E s \in Scrapers : ShowCounters(s)
    \/ (Shutdown \/ Crash) /\ CallsEnd
    \/ Elsewhere

BrokerSpec == BrokerInit /\ [][BrokerNext]_bvars

-----------------------------------------------------------------------------
(* Properties *)

AnswerHolds(a) ==
    /\ a.stage \in {"stored", "accepted"} => a.id \in Rows /\ req[a.id] = a.req
    /\ a.stage \in {"refused", "conflict"}
          => a.id \in Rows \/ \E i \in Rows : req[i].payload = a.req.payload

\* What a client was told stays true, whatever crashes, replays and other
\* requests follow: the job it was told of has a row with its request, even
\* when two handlers drew one id; and the job it was refused has the payload of
\* an existing row, or an id that was taken.
AnswersHold == \A c \in Clients : AnswerHolds(call[c])

\* "# TYPE causal_queue_processed_total counter", and the same of the
\* anomalies: a scrape counts no less than any earlier one showed, whatever the
\* workers do meanwhile and although the process restarts, while the table has
\* no more rows than handleMetrics reads.  Beyond that a counter falls as the
\* rows it counted drop out of the newest ones.
CountersNeverFall ==
    [][\A s \in Scrapers :
          /\ reading[s] = NoReading
          /\ reading'[s] # NoReading
          /\ Cardinality(Rows) <= ListLimit
          => /\ reading'[s].processed >= exposed.processed
             /\ reading'[s].anomalies >= exposed.anomalies]_bvars

\* README.md: "The queue forbids enqueuing duplicates if an identical payload
\* is currently pending, reserved, or active in execution": a payload none of
\* whose jobs is active is not refused.
RefusedOnlyIfActive ==
    [][\A c \in Clients :
          call[c].stage = "admitted" /\ call'[c].stage = "refused"
              => Duplicate(call[c].req.payload)]_bvars

=============================================================================
