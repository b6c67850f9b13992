------------------------------ MODULE Ranking ------------------------------
(***************************************************************************)
(* Which waiting job the simulator of the web page executes next: the      *)
(* rules and their sliders, the clock, and the scores by which a tick      *)
(* sorts (src/App.tsx).  Every action is one of Simulator, with what it    *)
(* leaves open decided here.                                               *)
(*                                                                         *)
(* Time is in seconds.  An update is rendered within milliseconds, so      *)
(* seconds pass only while the page shows all of its state.  Left out:     *)
(* priorityScore as it is stored for the table, since each tick computes   *)
(* the scores that it sorts by; ties, which may fall either way.           *)
(***************************************************************************)
EXTENDS Simulator, PageScore

CONSTANTS
    Contexts,
    BasePriorities,     \* what is typed into the form
    Backoff(_),         \* seconds that a job waits after its n-th failure
    Positions,          \* the slider positions tried
    SeedInfo,           \* the jobs on the page when it loads
    NoInfo,             \* the fields of an id without a job
    TimeSteps,          \* by how much the clock may advance at once
    MaxTime             \* bound on the clock

VARIABLES
    info,               \* context, base priority and createdAt of each job
    runAt,              \* when each job may be started, as of all updates
    seenRunAt,          \* and as of the render the callbacks read
    rules,
    now                 \* Date.now()

ranking  == <<info, runAt, seenRunAt, rules, now>>
rankVars == <<vars, ranking>>

\* value attributes of the sliders: 0.1 to 3.0 by 0.1, or 5 to 1000 by 5.
SliderRange(type) ==
    IF type = "starvation_boost" THEN 1 .. 30 ELSE {50 * n : n \in 1 .. 200}

\* Mutant: a slider goes anywhere.
AnyValue(type, v) == TRUE

InRange(type, v) == v \in SliderRange(type)

Values == Positions \cup {INITIAL_RULES[k].value : k \in DOMAIN INITIAL_RULES}

RuleLists ==
    { r \in { [k \in DOMAIN INITIAL_RULES |-> [INITIAL_RULES[k] EXCEPT !.value = v[k]]] :
                  v \in [DOMAIN INITIAL_RULES -> Values] } :
          \A k \in DOMAIN r : r[k].value \in SliderRange(r[k].type) }

FormFields == [context : Contexts, base : BasePriorities]

Job == [context : Contexts, base : BasePriorities, createdAt : Int]

ASSUME RankingAssumption ==
    /\ MaxTime \in Nat
    /\ NoInfo \notin Job
    /\ BasePriorities \subseteq Int
    /\ \A n \in 1 .. MaxRetries : Backoff(n) \in Nat \ {0}
    /\ TimeSteps \subseteq Nat \ {0}
    /\ SeedInfo \in [Seeds -> Job]
    /\ \A i \in Seeds : SeedInfo[i].createdAt \in -45 .. 0

RankTypeOK ==
    /\ info \in [Ids -> Job \cup {NoInfo}]
    /\ \A i \in Ids : state[i] # "absent" => info[i] # NoInfo
    /\ runAt \in [Ids -> Nat]
    /\ seenRunAt \in [Ids -> Nat]
    /\ rules \in RuleLists
    /\ now \in 0 .. MaxTime

RankInit ==
    /\ SimInit
    /\ info = [i \in Ids |-> IF i \in Seeds THEN SeedInfo[i] ELSE NoInfo]
    /\ runAt = [i \in Ids |-> 0]
    /\ seenRunAt = runAt
    /\ rules = INITIAL_RULES
    /\ now = 0

-----------------------------------------------------------------------------
(* What a visitor does *)

\* The render that follows a click.
RankClick == seenRunAt' = runAt'

RankedSubmit(i, h) ==
    /\ FormSubmit(i, h)
    /\ \E f \in FormFields :
          info' = [info EXCEPT ![i] = [context |-> f.context, base |-> f.base,
                                       createdAt |-> now]]
    /\ runAt' = [runAt EXCEPT ![i] = now]
    /\ RankClick
    /\ UNCHANGED <<rules, now>>

\* The button is there while dead jobs are shown.
RankedReplay ==
    /\ \E i \in Ids : seen.state[i] = "dead"
    /\ DLQReplay
    /\ info' = [i \in Ids |-> IF state[i] = "dead" THEN [info[i] EXCEPT !.createdAt = now]
                                                  ELSE info[i]]
    /\ runAt' = [i \in Ids |-> IF state[i] = "dead" THEN now ELSE runAt[i]]
    /\ RankClick
    /\ UNCHANGED <<rules, now>>

RankedClear ==
    /\ ClearQueue
    /\ info' = [i \in Ids |-> NoInfo]
    /\ runAt' = [i \in Ids |-> 0]
    /\ RankClick
    /\ UNCHANGED <<rules, now>>

RankedLock == ToggleLock /\ UNCHANGED <<info, runAt, rules, now>> /\ RankClick

EditRules ==
    /\ \/ rules' = INITIAL_RULES
       \/ \E k \in DOMAIN rules : \E v \in Positions :
             /\ InRange(rules[k].type, v)
             /\ rules' = [rules EXCEPT ![k].value = v]
    /\ Render
    /\ UNCHANGED <<info, runAt, now>>
    /\ RankClick

-----------------------------------------------------------------------------
(* Timers *)

\* A job's age in tenths of a second, as PageScoreOf wants it.
Age(i) == 10 * (now - info[i].createdAt)

ScoreNow(i) == PageScoreOf(info[i].context, info[i].base, Age(i), rules)

\* Mutant: a job's backoff is not looked at.
AnyWaiting == Waiting

\* Mutant: a job is due only after its time.
DueLater == {i \in Waiting : seenRunAt[i] < now}

Due == {i \in Waiting : seenRunAt[i] <= now}

\* Mutant: sorted by ascending score.
LowestFirst(S) ==
    /\ S \subseteq Due
    /\ S = Due \/ Cardinality(S) = Cardinality(Idle)
    /\ \A i \in S, k \in Due \ S : ScoreNow(i) <= ScoreNow(k)

\* S are the jobs that the idle workers, in turn, shift from the due jobs
\* sorted by descending score.
HighestFirst(S) ==
    /\ S \subseteq Due
    /\ S = Due \/ Cardinality(S) = Cardinality(Idle)
    /\ \A i \in S, k \in Due \ S : ScoreNow(i) >= ScoreNow(k)

\* The jobs this step starts.
Started == {i \in Ids : runs'[i] > runs[i]}

RankedTick ==
    /\ Tick
    /\ seen.backpressureLock \/ HighestFirst(Started)
    /\ runAt' = seenRunAt
    /\ UNCHANGED <<info, seenRunAt, rules, now>>

RankedFinish(e) ==
    /\ Finish(e)
    /\ runAt' = IF state'[e.job] = "pending"
                THEN [runAt EXCEPT ![e.job] = now + Backoff(retries'[e.job])]
                ELSE runAt
    /\ UNCHANGED <<info, seenRunAt, rules, now>>

RankedRender ==
    /\ Render
    /\ seenRunAt' = runAt
    /\ UNCHANGED <<info, runAt, rules, now>>

TimePasses ==
    /\ seen = Rendered
    /\ seenRunAt = runAt
    /\ \E d \in TimeSteps : now + d <= MaxTime /\ now' = now + d
    /\ UNCHANGED <<vars, info, runAt, seenRunAt, rules>>

-----------------------------------------------------------------------------

RankNext ==
    \/ \E i \in Ids, h \in Hashes : RankedSubmit(i, h)
    \/ RankedReplay
    \/ RankedClear
    \/ RankedLock
    \/ EditRules
    \/ RankedTick
    \/ \E e \in executions : RankedFinish(e)
    \/ RankedRender
    \/ TimePasses

RankSpec == RankInit /\ [][RankNext]_rankVars

\* Timers fire, and the clock goes on.  A tick fires although every render
\* restarts its interval: clicks leave the page alone for an interval again
\* and again, and executions are finitely many between two ticks.
RankFairness ==
    /\ WF_rankVars(RankedTick)
    /\ WF_rankVars(RankedRender)
    /\ WF_rankVars(TimePasses)
    /\ \A i \in Ids, w \in Workers :
          LET e == [job |-> i, worker |-> w] IN
          WF_rankVars(e \in executions /\ RankedFinish(e))

FairRankSpec == RankSpec /\ RankFairness

-----------------------------------------------------------------------------
(* Properties *)

\* Of two due jobs of one context and base priority, a tick starts the older
\* one first, whatever the sliders did while they waited.
OlderFirst ==
    [][\A i \in Started, k \in Ids \ Started :
          /\ state[k] = "pending" /\ runAt[k] <= now
          /\ info[k].context = info[i].context
          /\ info[k].base = info[i].base
          => info[i].createdAt <= info[k].createdAt]_rankVars

\* A tick, which decides on the list of an older render, starts no job that by
\* now is not waiting or whose backoff is not over.
StartsWhenDue ==
    [][\A i \in Started : state[i] = "pending" /\ runAt[i] <= now]_rankVars

\* With the initial rules, "user-facing onboarding tasks immediately bypass bulk
\* reports younger than 30s": no such report of at most the same base priority
\* is started while an onboarding job is due.
OnboardingBypassesReports ==
    [][rules = INITIAL_RULES =>
          \A i \in Started, k \in Ids \ Started :
             /\ state[k] = "pending" /\ runAt[k] <= now
             /\ info[k].context = "user_onboarding"
             /\ info[i].context = "report_generation"
             /\ info[i].base <= info[k].base
             => now - info[i].createdAt >= 30]_rankVars

\* "This playground models the exact dynamic mechanics of our compiled Go engine
\* files": it orders the waiting jobs as the engine would, those apart whose
\* context an outranking rule favours.
RanksAsEngine ==
    LET Plain == {i \in Ids :
                     /\ state[i] = "pending"
                     /\ \A k \in DOMAIN rules : rules[k].type = "context_outranks_age"
                                                => rules[k].context # info[i].context}
        EngineNow(i) ==
            ComputePriorityScore(info[i].context, info[i].base, Age(i), rules)
    IN  \A i, k \in Plain : ScoreNow(i) > ScoreNow(k) <=> EngineNow(i) > EngineNow(k)

\* Every worker is marked busy and none executes: what is left of the page when
\* the stress lock was on, or when a tick wrote ended executions back.
Halted ==
    \A w \in Workers : busy[w] /\ \A e \in executions : e.worker # w

\* A waiting job leaves the queue's pending list in the end, unless the page
\* comes to a halt.
DueJobsStart ==
    \A i \in Ids :
        state[i] = "pending" /\ runAt[i] <= MaxTime ~> state[i] # "pending" \/ Halted

=============================================================================
