--------------------------- MODULE RankingProofs ---------------------------
(***************************************************************************)
(* What a tick of the page starts, and in which order, for any jobs,       *)
(* workers, rules and clock, although it decides by an older render.       *)
(*                                                                         *)
(* Ranking takes only steps of Simulator, so its theorems hold here too.   *)
(* Between a render and its tick the list may lose waiting jobs only to a  *)
(* later time: what the tick sees waiting and due still is, and what it    *)
(* does not see waiting is in its backoff.                                 *)
(***************************************************************************)
EXTENDS Ranking, SimulatorProofs, FoldProofs, SequenceTheorems

-----------------------------------------------------------------------------
(* The page with its scores is the page *)

LEMMA RankStep == [RankNext]_rankVars => [SimNext]_vars
<1> SUFFICES ASSUME [RankNext]_rankVars PROVE [SimNext]_vars
    OBVIOUS
<1>1. CASE UNCHANGED rankVars \/ TimePasses
    BY <1>1 DEF rankVars, TimePasses
<1>2. CASE \E i \in Ids, h \in Hashes : RankedSubmit(i, h)
    BY <1>2 DEF RankedSubmit, SimNext
<1>3. CASE RankedReplay \/ RankedClear \/ RankedLock
    BY <1>3 DEF RankedReplay, RankedClear, RankedLock, SimNext
<1>4. CASE EditRules \/ RankedRender
    BY <1>4 DEF EditRules, RankedRender, SimNext
<1>5. CASE RankedTick
    BY <1>5 DEF RankedTick, SimNext
<1>6. CASE \E e \in executions : RankedFinish(e)
    BY <1>6 DEF RankedFinish, SimNext
<1>7. QED
    BY <1>1, <1>2, <1>3, <1>4, <1>5, <1>6 DEF RankNext

\* Whatever the rules and scores are, the page's queue only takes steps of
\* Simulator, so that every theorem about it holds of the page.
THEOREM RankingIsSimulator == RankSpec => SimSpec
<1>1. RankInit => SimInit
    BY DEF RankInit
<1>2. QED
    BY <1>1, RankStep, PTL DEF RankSpec, SimSpec

LEMMA RankSInv == RankSpec => []SInv
    BY RankingIsSimulator, SimInvariance, PTL

-----------------------------------------------------------------------------
(* Types *)

\* What is known of a job that was made at or before time t.
JobBy(t) == [context : Contexts, base : BasePriorities, createdAt : -45 .. t]

\* Of a list of jobs: each one's fields are known.
InfoOK(s) == \A i \in Ids : s[i] # "absent" => info[i] \in JobBy(now)

RankInv ==
    /\ info \in [Ids -> Job \cup {NoInfo}]
    /\ runAt \in [Ids -> Nat]
    /\ seenRunAt \in [Ids -> Nat]
    /\ rules \in RuleLists
    /\ now \in 0 .. MaxTime
    /\ InfoOK(state)
    /\ InfoOK(seen.state)

LEMMA InitialRuleValues ==
    /\ Len(INITIAL_RULES) = 3
    /\ DOMAIN INITIAL_RULES = 1 .. 3
    /\ INITIAL_RULES[1] = Rule("payment_failed", "boost", 5000)
    /\ INITIAL_RULES[2] = Rule("user_onboarding", "context_outranks_age", 300)
    /\ INITIAL_RULES[3] = Rule("report_generation", "starvation_boost", 5)
    /\ \A k \in 1 .. 3 :
          INITIAL_RULES[k] = [context |-> INITIAL_RULES[k].context,
                              type |-> INITIAL_RULES[k].type,
                              value |-> INITIAL_RULES[k].value]
    BY DEF INITIAL_RULES, Rule

\* The page loads with rules that its sliders could have set.
LEMMA InitialRulesListed == INITIAL_RULES \in RuleLists
<1> DEFINE I == INITIAL_RULES
           v == [k \in DOMAIN I |-> I[k].value]
<1>1. v \in [DOMAIN I -> Values]
    BY DEF Values
<1>2. I = [k \in DOMAIN I |-> [I[k] EXCEPT !.value = v[k]]]
    <2>1. I = [k \in DOMAIN I |-> I[k]]
        BY DEF INITIAL_RULES
    <2>2. \A k \in DOMAIN I : I[k] = [I[k] EXCEPT !.value = v[k]]
        BY InitialRuleValues
    <2>3. QED
        BY <2>1, <2>2
<1>3. \A k \in DOMAIN I : I[k].value \in SliderRange(I[k].type)
    <2>1. /\ 100 \in 1 .. 200 /\ 5000 = 50 * 100
          /\ 6 \in 1 .. 200 /\ 300 = 50 * 6
          /\ 5 \in 1 .. 30
        OBVIOUS
    <2>2. /\ 5000 \in SliderRange("boost")
          /\ 300 \in SliderRange("context_outranks_age")
          /\ 5 \in SliderRange("starvation_boost")
        BY <2>1 DEF SliderRange
    <2>3. QED
        BY <2>2, InitialRuleValues DEF Rule
<1> HIDE DEF v, I
<1>4. QED
    BY <1>1, <1>2, <1>3 DEF RuleLists, I

\* The sliders keep every rate positive.
LEMMA ListedRules ==
    ASSUME NEW r \in RuleLists
    PROVE  IsRuleList(r) /\ RatesPositive(r)
<1>1. /\ DOMAIN r = 1 .. 3
      /\ \A k \in 1 .. 3 : r[k].value \in SliderRange(r[k].type)
    BY InitialRuleValues DEF RuleLists
<1>2. \A k \in 1 .. 3 : /\ r[k].value \in Int
                        /\ r[k].type = "starvation_boost" => r[k].value > 0
    BY <1>1 DEF SliderRange
<1>3. Len(r) = 3
    <2> DEFINE V == {r[k] : k \in 1 .. 3}
    <2>1. r \in [1 .. 3 -> V]
        BY <1>1, InitialRuleValues DEF RuleLists
    <2>2. r \in Seq(V)
        BY <2>1, SeqDef
    <2>3. Len(r) \in Nat /\ DOMAIN r = 1 .. Len(r)
        BY <2>2
    <2>4. QED
        BY <1>1, <2>3
<1>4. ASSUME NEW k \in DOMAIN r
      PROVE  /\ r[k].value \in Int
             /\ r[k].type = "starvation_boost" => r[k].value > 0
    BY <1>1, <1>2
<1>5. Len(r) \in Nat /\ DOMAIN r = 1 .. Len(r)
    BY <1>1, <1>3
<1>6. QED
    BY <1>4, <1>5 DEF IsRuleList, RatesPositive

LEMMA InitRank == RankInit => RankInv
<1> SUFFICES ASSUME RankInit PROVE RankInv
    OBVIOUS
<1> USE RankingAssumption
<1>1. Seeds \subseteq Ids
    BY SimulatorAssumption DEF Seeds
<1>2. \A i \in Seeds : SeedInfo[i] \in JobBy(0)
    BY DEF Job, JobBy
<1>3. now = 0 /\ seen.state = state
    BY DEF RankInit, SimInit, Rendered
<1>4. InfoOK(state)
    BY <1>1, <1>2, <1>3 DEF RankInit, SimInit, InfoOK
<1>5. info \in [Ids -> Job \cup {NoInfo}]
    BY <1>1 DEF RankInit
<1>6. runAt \in [Ids -> Nat] /\ seenRunAt \in [Ids -> Nat]
    BY DEF RankInit
<1>7. QED
    BY <1>3, <1>4, <1>5, <1>6, InitialRulesListed DEF RankInit, RankInv, InfoOK

\* A later clock forgets nothing.
LEMMA JobByLater ==
    ASSUME NEW t \in Nat, NEW u \in Nat, t <= u
    PROVE  JobBy(t) \subseteq JobBy(u)
    BY DEF JobBy

LEMMA JobByIsJob ==
    ASSUME NEW t \in Nat
    PROVE  JobBy(t) \subseteq Job
    BY DEF JobBy, Job

\* After a click or a render the page is seen as it is.
LEMMA ShownInfo ==
    ASSUME seen' = Rendered', InfoOK(state)'
    PROVE  InfoOK(seen.state)'
    BY DEF InfoOK, Rendered

\* A slider keeps the rules within their ranges.
LEMMA EditedRules ==
    ASSUME rules \in RuleLists, EditRules
    PROVE  rules' \in RuleLists
<1>1. CASE rules' = INITIAL_RULES
    BY <1>1, InitialRulesListed
<1>2. CASE \E k \in DOMAIN rules : \E v \in Positions :
              /\ InRange(rules[k].type, v)
              /\ rules' = [rules EXCEPT ![k].value = v]
    <2>1. PICK vals \in [DOMAIN INITIAL_RULES -> Values] :
              rules = [k \in DOMAIN INITIAL_RULES |->
                          [INITIAL_RULES[k] EXCEPT !.value = vals[k]]]
        BY DEF RuleLists
    <2>2. PICK k \in DOMAIN rules, v \in Positions :
              /\ v \in SliderRange(rules[k].type)
              /\ rules' = [rules EXCEPT ![k].value = v]
        BY <1>2 DEF InRange
    <2>3. k \in DOMAIN INITIAL_RULES /\ v \in Values
        BY <2>1, <2>2 DEF Values
    <2> DEFINE new == [vals EXCEPT ![k] = v]
    <2>4. new \in [DOMAIN INITIAL_RULES -> Values]
        BY <2>1, <2>3
    <2>5. \A j \in DOMAIN INITIAL_RULES :
              /\ rules'[j] = [INITIAL_RULES[j] EXCEPT !.value = new[j]]
              /\ rules'[j].type = rules[j].type
              /\ rules'[j].value = IF j = k THEN v ELSE rules[j].value
        BY <2>1, <2>2, <2>3, InitialRuleValues
    <2>6. rules' = [j \in DOMAIN INITIAL_RULES |->
                       [INITIAL_RULES[j] EXCEPT !.value = new[j]]]
        BY <2>1, <2>2, <2>5
    <2>7. DOMAIN rules' = DOMAIN rules /\ DOMAIN rules = DOMAIN INITIAL_RULES
        BY <2>1, <2>2
    <2>8. \A j \in DOMAIN rules' : rules'[j].value \in SliderRange(rules'[j].type)
        BY <2>2, <2>5, <2>7 DEF RuleLists
    <2> HIDE DEF new
    <2>9. QED
        BY <2>4, <2>6, <2>8 DEF RuleLists
<1>3. QED
    BY <1>1, <1>2 DEF EditRules

LEMMA BackoffPositive == \A n \in 1 .. MaxRetries : Backoff(n) \in Nat \ {0}
    BY RankingAssumption

LEMMA NextRank ==
    ASSUME SInv, SInv', RankInv, [RankNext]_rankVars
    PROVE  RankInv'
<1> USE RankingAssumption DEF RankInv
<1>1. CASE UNCHANGED rankVars
    BY <1>1 DEF rankVars, vars, page, ranking, InfoOK
<1>2. ASSUME NEW i \in Ids, NEW h \in Hashes, RankedSubmit(i, h)
      PROVE  RankInv'
    <2>1. PICK f \in FormFields :
              info' = [info EXCEPT ![i] = [context |-> f.context, base |-> f.base,
                                           createdAt |-> now]]
        BY <1>2 DEF RankedSubmit
    <2>2. [context |-> f.context, base |-> f.base, createdAt |-> now] \in JobBy(now)
        BY DEF FormFields, JobBy
    <2>3. /\ state' = [state EXCEPT ![i] = "pending"]
          /\ seen' = Rendered'
          /\ UNCHANGED <<rules, now>>
          /\ runAt' = [runAt EXCEPT ![i] = now]
          /\ seenRunAt' = runAt'
        BY <1>2 DEF RankedSubmit, RankClick, FormSubmit, Click
    <2>4. InfoOK(state)'
        BY <2>1, <2>2, <2>3 DEF InfoOK, SInv, SimTypeOK
    <2>5. info' \in [Ids -> Job \cup {NoInfo}]
        BY <2>1, <2>2, JobByIsJob
    <2>6. runAt' \in [Ids -> Nat] /\ seenRunAt' \in [Ids -> Nat]
        BY <2>3
    <2>7. QED
        BY <2>3, <2>4, <2>5, <2>6, ShownInfo
<1>3. CASE RankedReplay
    <2>1. /\ state' = [i \in Ids |-> IF state[i] = "dead" THEN "pending" ELSE state[i]]
          /\ info' = [i \in Ids |-> IF state[i] = "dead"
                                    THEN [info[i] EXCEPT !.createdAt = now]
                                    ELSE info[i]]
          /\ runAt' = [i \in Ids |-> IF state[i] = "dead" THEN now ELSE runAt[i]]
          /\ seen' = Rendered'
          /\ seenRunAt' = runAt'
          /\ UNCHANGED <<rules, now>>
        BY <1>3 DEF RankedReplay, RankClick, DLQReplay, Click
    <2>2. \A i \in Ids : state[i] # "absent"
                           => [info[i] EXCEPT !.createdAt = now] \in JobBy(now)
        BY DEF InfoOK, JobBy
    <2>3. InfoOK(state)'
        BY <2>1, <2>2 DEF InfoOK
    <2>4. info' \in [Ids -> Job \cup {NoInfo}]
        BY <2>1, <2>2, JobByIsJob
    <2>5. runAt' \in [Ids -> Nat]
        BY <2>1
    <2>6. QED
        BY <2>1, <2>3, <2>4, <2>5, ShownInfo
<1>4. CASE RankedClear
    <2>1. /\ state' = [i \in Ids |-> "absent"]
          /\ seen' = Rendered'
          /\ info' = [i \in Ids |-> NoInfo]
          /\ runAt' = [i \in Ids |-> 0]
          /\ seenRunAt' = runAt'
          /\ UNCHANGED <<rules, now>>
        BY <1>4 DEF RankedClear, RankClick, ClearQueue, Click
    <2>2. InfoOK(state)'
        BY <2>1 DEF InfoOK
    <2>3. QED
        BY <2>1, <2>2, ShownInfo
<1>5. CASE RankedLock \/ EditRules \/ RankedRender
    <2>1. /\ seen' = Rendered'
          /\ seenRunAt' = runAt'
          /\ UNCHANGED <<state, info, runAt, now>>
        BY <1>5 DEF RankedLock, EditRules, RankedRender, RankClick, ToggleLock, Click,
                    Render, Rendered, page
    <2>2. rules' \in RuleLists
        BY <1>5, EditedRules DEF RankedLock, RankedRender
    <2>3. InfoOK(state)'
        BY <2>1 DEF InfoOK
    <2>4. QED
        BY <2>1, <2>2, <2>3, ShownInfo
<1>6. CASE RankedTick
    <2>1. /\ \A i \in Ids : state'[i] # "absent" => seen.state[i] # "absent"
          /\ UNCHANGED <<seen, info, seenRunAt, rules, now>>
          /\ runAt' = seenRunAt
        BY <1>6, AllocationFacts DEF RankedTick, Tick
    <2>2. QED
        BY <2>1 DEF InfoOK
<1>7. ASSUME NEW e \in executions, RankedFinish(e)
      PROVE  RankInv'
    <2>1. /\ \A i \in Ids : state'[i] # "absent" => state[i] # "absent"
          /\ UNCHANGED <<seen, info, seenRunAt, rules, now>>
        BY <1>7 DEF RankedFinish, Finish, Succeed, FailOrRetry, SInv, SimTypeOK
    <2>2. runAt' \in [Ids -> Nat]
        <3>1. CASE state'[e.job] = "pending"
            <4>1. e.job \in Ids /\ state[e.job] \in {"running", "absent"}
                BY DEF SInv, SimTypeOK, ExclusiveExecution
            <4>2. retries'[e.job] \in 1 .. MaxRetries
                BY <1>7, <3>1, <4>1, SimulatorAssumption
                DEF RankedFinish, Finish, Succeed, FailOrRetry, RetriesLeft, SInv,
                    SimTypeOK
            <4>3. Backoff(retries'[e.job]) \in Nat
                BY <4>2, BackoffPositive
            <4>4. runAt' = [runAt EXCEPT ![e.job] = now + Backoff(retries'[e.job])]
                BY <1>7, <3>1 DEF RankedFinish
            <4>5. now + Backoff(retries'[e.job]) \in Nat
                BY <4>3
            <4>6. QED
                BY <4>4, <4>5
        <3>2. CASE state'[e.job] # "pending"
            BY <1>7, <3>2 DEF RankedFinish
        <3>3. QED
            BY <3>1, <3>2
    <2>3. QED
        BY <2>1, <2>2 DEF InfoOK
<1>8. CASE TimePasses
    <2>1. /\ now' \in 0 .. MaxTime
          /\ now <= now'
          /\ UNCHANGED <<state, seen, info, runAt, seenRunAt, rules>>
        BY <1>8 DEF TimePasses, vars, page
    <2>2. JobBy(now) \subseteq JobBy(now')
        BY <2>1, JobByLater
    <2>3. QED
        BY <2>1, <2>2 DEF InfoOK
<1>9. QED
    BY <1>1, <1>2, <1>3, <1>4, <1>5, <1>6, <1>7, <1>8 DEF RankNext

LEMMA RankInvariance == RankSpec => [](SInv /\ RankInv)
    BY RankSInv, InitRank, NextRank, PTL DEF RankSpec

\* A listed job's fields are known whatever a tick writes back, and the rules
\* stay within the ranges of their sliders.
THEOREM RankTypeCorrectness == RankSpec => []RankTypeOK
<1>1. SInv /\ RankInv => RankTypeOK
    <2> SUFFICES ASSUME SInv, RankInv PROVE RankTypeOK
        OBVIOUS
    <2>1. \A i \in Ids : state[i] # "absent" => info[i] # NoInfo
        BY JobByIsJob, RankingAssumption DEF RankInv, InfoOK
    <2>2. QED
        BY <2>1 DEF RankInv, RankTypeOK
<1>2. QED
    BY <1>1, RankInvariance, PTL

-----------------------------------------------------------------------------
(* What a tick starts *)

\* Until its tick, a render's waiting jobs are waiting since then, and jobs that
\* were not waiting then are in their backoff if they are now.
DueSeen ==
    ~ticked =>
        \A i \in Ids :
            /\ seen.state[i] = "pending" => state[i] = "pending" /\ runAt[i] = seenRunAt[i]
            /\ state[i] = "pending" /\ seen.state[i] # "pending" => runAt[i] > now

\* After a click or a render the page is seen as it is.
LEMMA ShownDue ==
    ASSUME seen' = Rendered', seenRunAt' = runAt'
    PROVE  DueSeen'
    BY DEF DueSeen, Rendered

LEMMA NextDue ==
    ASSUME SInv, RankInv, DueSeen, [RankNext]_rankVars
    PROVE  DueSeen'
<1>1. CASE UNCHANGED rankVars
    BY <1>1 DEF rankVars, vars, page, ranking, DueSeen
<1>2. CASE \/ \E i \in Ids, h \in Hashes : RankedSubmit(i, h)
           \/ RankedReplay
           \/ RankedClear
           \/ RankedLock
           \/ EditRules
           \/ RankedRender
    <2>1. seen' = Rendered' /\ seenRunAt' = runAt'
        BY <1>2 DEF RankedSubmit, RankedReplay, RankedClear, RankedLock, EditRules,
                    RankedRender, RankClick, FormSubmit, DLQReplay, ClearQueue,
                    ToggleLock, Click, Render, Rendered, page
    <2>2. QED
        BY <2>1, ShownDue
<1>3. CASE RankedTick
    BY <1>3 DEF RankedTick, Tick, DueSeen
<1>4. ASSUME NEW e \in executions, RankedFinish(e)
      PROVE  DueSeen'
    <2> SUFFICES ASSUME ~ticked, NEW i \in Ids
                 PROVE  /\ seen.state[i] = "pending"
                             => state'[i] = "pending" /\ runAt'[i] = seenRunAt[i]
                        /\ state'[i] = "pending" /\ seen.state[i] # "pending"
                             => runAt'[i] > now
        BY <1>4 DEF RankedFinish, Finish, DueSeen
    <2>1. /\ e.job \in Ids
          /\ state[e.job] \in {"running", "absent"}
          /\ seen.state[e.job] \in {"running", "absent"}
        BY DEF SInv, SimTypeOK, ExclusiveExecution, ExecutionsSeen
    <2>2. CASE i # e.job
        <3>1. state'[i] = state[i] /\ runAt'[i] = runAt[i]
            BY <1>4, <2>1, <2>2
            DEF RankedFinish, Finish, Succeed, FailOrRetry, SInv, SimTypeOK, RankInv
        <3>2. QED
            BY <3>1 DEF DueSeen
    <2>3. CASE i = e.job /\ state'[i] = "pending"
        <3>1. retries'[i] \in 1 .. MaxRetries
            BY <1>4, <2>1, <2>3, SimulatorAssumption
            DEF RankedFinish, Finish, Succeed, FailOrRetry, RetriesLeft, SInv, SimTypeOK
        <3>2. runAt'[i] = now + Backoff(retries'[i])
            BY <1>4, <2>1, <2>3 DEF RankedFinish, RankInv
        <3>3. Backoff(retries'[i]) \in Nat \ {0} /\ now \in Nat
            BY <3>1, BackoffPositive, RankingAssumption DEF RankInv
        <3>4. QED
            BY <2>1, <2>3, <3>2, <3>3
    <2>4. QED
        BY <2>1, <2>2, <2>3
<1>5. CASE TimePasses
    BY <1>5 DEF TimePasses, Rendered, vars, page, DueSeen
<1>6. QED
    BY <1>1, <1>2, <1>3, <1>4, <1>5 DEF RankNext

LEMMA DueInvariance == RankSpec => [](SInv /\ RankInv /\ DueSeen)
<1>1. RankInit => DueSeen
    BY DEF RankInit, SimInit, Rendered, DueSeen
<1>2. QED
    BY <1>1, RankInvariance, NextDue, PTL DEF RankSpec

\* Only a tick starts jobs: those that it sees waiting, that are due, and that
\* score highest, in the list it was given.
LEMMA StartedFacts ==
    ASSUME SInv, RankInv, [RankNext]_rankVars, NEW i \in Started
    PROVE  /\ i \in Ids
           /\ RankedTick
           /\ ~ticked
           /\ HighestFirst(Started)
           /\ seen.state[i] = "pending"
<1>1. i \in Ids /\ runs'[i] > runs[i] /\ runs[i] \in Nat
    BY DEF Started, SInv, SimTypeOK
<1>2. RankedTick
    <2>1. ASSUME UNCHANGED runs PROVE FALSE
        BY <1>1, <2>1
    <2>2. RankNext
        BY <2>1 DEF rankVars, vars, history
    <2>3. (\E j \in Ids, h \in Hashes : RankedSubmit(j, h)) => UNCHANGED runs
        BY DEF RankedSubmit, FormSubmit
    <2>4. RankedReplay \/ RankedClear \/ RankedLock => UNCHANGED runs
        BY DEF RankedReplay, RankedClear, RankedLock, DLQReplay, ClearQueue, ToggleLock,
               history
    <2>5. EditRules \/ RankedRender \/ TimePasses => UNCHANGED runs
        BY DEF EditRules, RankedRender, TimePasses, Render, vars, history
    <2>6. (\E e \in executions : RankedFinish(e)) => UNCHANGED runs
        BY DEF RankedFinish, Finish, history
    <2>7. QED
        BY <2>1, <2>2, <2>3, <2>4, <2>5, <2>6 DEF RankNext
<1>3. PICK job \in Allocations :
          runs' = [j \in Ids |-> IF j \in Range(job) THEN runs[j] + 1 ELSE runs[j]]
    BY <1>2 DEF RankedTick, Tick
<1>4. i \in Range(job)
    BY <1>1, <1>3
<1>5. ~seen.backpressureLock /\ seen.state[i] = "pending"
    <2>1. DOMAIN job # {} /\ seen.state[i] = "pending"
        BY <1>4, AllocationFacts
    <2>2. seen.backpressureLock => job = << >>
        BY <1>3 DEF Allocations
    <2>3. DOMAIN << >> = {}
        OBVIOUS
    <2>4. QED
        BY <2>1, <2>2, <2>3
<1>6. QED
    BY <1>1, <1>2, <1>5 DEF RankedTick, Tick

LEMMA StartedAreDue ==
    ASSUME SInv, RankInv, DueSeen, [RankNext]_rankVars
    PROVE  \A i \in Started : state[i] = "pending" /\ runAt[i] <= now
<1> SUFFICES ASSUME NEW i \in Started
             PROVE  state[i] = "pending" /\ runAt[i] <= now
    OBVIOUS
<1>1. i \in Ids /\ ~ticked /\ seen.state[i] = "pending" /\ i \in Due
    BY StartedFacts DEF HighestFirst
<1>2. seenRunAt[i] <= now
    BY <1>1 DEF Due
<1>3. QED
    BY <1>1, <1>2 DEF DueSeen

\* A tick, which decides on the list of an older render, starts no job that by
\* now is not waiting or whose backoff is not over.
THEOREM StartedWhenDue == RankSpec => StartsWhenDue
<1>1. SInv /\ RankInv /\ DueSeen /\ [RankNext]_rankVars
        => [\A i \in Started : state[i] = "pending" /\ runAt[i] <= now]_rankVars
    BY StartedAreDue
<1>2. QED
    BY <1>1, DueInvariance, PTL DEF RankSpec, StartsWhenDue

-----------------------------------------------------------------------------
(* The order in which waiting jobs are started *)

LEMMA LargerFactor ==
    ASSUME NEW a \in Int, NEW b \in Int, NEW rate \in Nat \ {0},
           a * rate >= b * rate
    PROVE  a >= b
<1> SUFFICES ASSUME a < b PROVE FALSE
    OBVIOUS
<1>1. b - a \in Nat \ {0}
    OBVIOUS
<1>2. (b - a) * rate > 0
    BY <1>1
<1>3. (b - a) * rate = b * rate - a * rate
    OBVIOUS
<1>4. a * rate \in Int /\ b * rate \in Int
    OBVIOUS
<1>5. QED
    BY <1>2, <1>3, <1>4

\* A started job is due, and scores at least what any due job does that is not
\* started with it.
LEMMA StartsHighest ==
    ASSUME SInv, RankInv, DueSeen, [RankNext]_rankVars,
           NEW i \in Started, NEW k \in Ids \ Started,
           state[k] = "pending", runAt[k] <= now
    PROVE  /\ ScoreNow(i) >= ScoreNow(k)
           /\ info[i] \in JobBy(now)
           /\ info[k] \in JobBy(now)
<1>1. i \in Ids /\ ~ticked /\ HighestFirst(Started)
    BY StartedFacts
<1>2. k \in Due
    <2>1. runAt[k] \in Nat /\ now \in Nat
        BY RankingAssumption DEF RankInv
    <2>2. seen.state[k] = "pending" /\ seenRunAt[k] <= now
        BY <1>1, <2>1 DEF DueSeen
    <2>3. QED
        BY <2>2 DEF Due, Waiting
<1>3. ScoreNow(i) >= ScoreNow(k)
    BY <1>1, <1>2 DEF HighestFirst
<1>4. state[i] = "pending"
    BY StartedAreDue
<1>5. QED
    BY <1>1, <1>3, <1>4 DEF RankInv, InfoOK

\* What a score is computed from.
LEMMA ScoreArguments ==
    ASSUME RankInv, NEW i \in Ids, info[i] \in JobBy(now)
    PROVE  /\ info[i].base \in Int
           /\ info[i].createdAt \in Int
           /\ now \in Int
           /\ now - info[i].createdAt \in Nat
           /\ Age(i) = 10 * (now - info[i].createdAt) /\ Age(i) \in Nat
           /\ IsRuleList(rules)
           /\ RatesPositive(rules)
<1>1. now \in Nat /\ rules \in RuleLists
    BY RankingAssumption DEF RankInv
<1>2. info[i].base \in Int /\ info[i].createdAt \in -45 .. now
    BY RankingAssumption DEF JobBy
<1>3. info[i].createdAt \in Int /\ now - info[i].createdAt \in Nat
    BY <1>1, <1>2
<1>4. QED
    BY <1>1, <1>2, <1>3, ListedRules DEF Age

\* Of two jobs of one context and base priority, none is older than the one
\* that scores higher.
LEMMA HigherIsOlder ==
    ASSUME RankInv, NEW i \in Ids, NEW k \in Ids,
           info[i] \in JobBy(now), info[k] \in JobBy(now),
           info[k].context = info[i].context,
           info[k].base = info[i].base,
           ScoreNow(i) >= ScoreNow(k)
    PROVE  info[i].createdAt <= info[k].createdAt
<1>1. PICK fresh \in Int, rate \in Nat \ {0} :
          \A age : PageScoreOf(info[i].context, info[i].base, age, rules)
                     = fresh + age * rate
    BY ScoreArguments, PageScoreGrows
<1>2. ScoreNow(i) = fresh + Age(i) * rate /\ ScoreNow(k) = fresh + Age(k) * rate
    BY <1>1 DEF ScoreNow
<1>3. Age(i) \in Int /\ Age(k) \in Int
    BY ScoreArguments
<1>4. Age(i) * rate \in Int /\ Age(k) * rate \in Int
    BY <1>3
<1>5. Age(i) * rate >= Age(k) * rate
    BY <1>2, <1>4
<1>6. Age(i) >= Age(k)
    BY <1>3, <1>5, LargerFactor
<1>7. /\ Age(i) = 10 * (now - info[i].createdAt)
      /\ Age(k) = 10 * (now - info[k].createdAt)
      /\ now \in Int /\ info[i].createdAt \in Int /\ info[k].createdAt \in Int
    BY ScoreArguments
<1>8. QED
    BY <1>6, <1>7

\* Of two due jobs of one context and base priority, a tick starts the older
\* one first, for any positions of the sliders.
THEOREM OlderStartsFirst == RankSpec => OlderFirst
<1>1. ASSUME SInv, RankInv, DueSeen, [RankNext]_rankVars
      PROVE  \A i \in Started, k \in Ids \ Started :
                /\ state[k] = "pending" /\ runAt[k] <= now
                /\ info[k].context = info[i].context
                /\ info[k].base = info[i].base
                => info[i].createdAt <= info[k].createdAt
    BY <1>1, StartedFacts, StartsHighest, HigherIsOlder
<1>2. QED
    BY <1>1, DueInvariance, PTL DEF RankSpec, OlderFirst

\* A report that scores at least as high as an onboarding job of at least its base
\* priority is 30 seconds old, which are 300 tenths: the weight of the outranking rule is 36 points, and
\* a report gathers half a point per second.
LEMMA YoungReportsWait ==
    ASSUME NEW b1 \in Int, NEW a1 \in Nat, NEW b2 \in Int, NEW a2 \in Nat,
           b1 <= b2, ReportScore(b1, a1) >= OnboardingScore(b2, a2)
    PROVE  a1 >= 300
<1>1. a1 \in Int /\ a2 \in Int
    OBVIOUS
<1>2. ReportScore(b1, a1) = 100 * b1 + 5 * a1
    BY <1>1, InitialScores
<1>3. OnboardingScore(b2, a2) = 100 * b2 + 3600 + a2
    BY <1>1, InitialScores
<1>4. QED
    BY <1>2, <1>3

\* With the initial rules, no bulk report younger than 30 seconds is started
\* while an onboarding job of at least its base priority is due.
THEOREM OnboardingFirst == RankSpec => OnboardingBypassesReports
<1>1. ASSUME SInv, RankInv, DueSeen, [RankNext]_rankVars
      PROVE  rules = INITIAL_RULES =>
                \A i \in Started, k \in Ids \ Started :
                   /\ state[k] = "pending" /\ runAt[k] <= now
                   /\ info[k].context = "user_onboarding"
                   /\ info[i].context = "report_generation"
                   /\ info[i].base <= info[k].base
                   => now - info[i].createdAt >= 30
    <2> SUFFICES ASSUME rules = INITIAL_RULES,
                        NEW i \in Started, NEW k \in Ids \ Started,
                        state[k] = "pending", runAt[k] <= now,
                        info[k].context = "user_onboarding",
                        info[i].context = "report_generation",
                        info[i].base <= info[k].base
                 PROVE  now - info[i].createdAt >= 30
        OBVIOUS
    <2>1. /\ i \in Ids
          /\ ScoreNow(i) >= ScoreNow(k)
          /\ info[i] \in JobBy(now)
          /\ info[k] \in JobBy(now)
        BY <1>1, StartedFacts, StartsHighest
    <2>2. /\ info[i].base \in Int /\ Age(i) \in Nat
          /\ info[k].base \in Int /\ Age(k) \in Nat
          /\ now - info[i].createdAt \in Nat
          /\ Age(i) = 10 * (now - info[i].createdAt)
        BY <1>1, <2>1, ScoreArguments
    <2>3. ReportScore(info[i].base, Age(i)) >= OnboardingScore(info[k].base, Age(k))
        BY <2>1 DEF ScoreNow, ReportScore, OnboardingScore
    <2>4. Age(i) >= 300
        BY <2>2, <2>3, YoungReportsWait
    <2>5. QED
        BY <2>2, <2>4
<1>2. QED
    BY <1>1, DueInvariance, PTL DEF RankSpec, OnboardingBypassesReports

\* The page orders the waiting jobs as the Go engine would, for any positions of
\* the sliders, those apart whose context an outranking rule favours.
THEOREM RankedAsEngine == RankSpec => []RanksAsEngine
<1>1. RankInv => RanksAsEngine
    <2> SUFFICES ASSUME RankInv PROVE RanksAsEngine
        OBVIOUS
    <2> DEFINE Apart == {i \in Ids :
                            /\ state[i] = "pending"
                            /\ \A k \in DOMAIN rules :
                                  rules[k].type = "context_outranks_age"
                                    => rules[k].context # info[i].context}
               EngineNow(i) ==
                   ComputePriorityScore(info[i].context, info[i].base, Age(i), rules)
    <2>1. ASSUME NEW i \in Apart
          PROVE  ScoreNow(i) = EngineNow(i)
        <3>1. i \in Ids /\ info[i] \in JobBy(now)
            BY DEF RankInv, InfoOK
        <3>2. Plain(info[i].context, rules)
            BY DEF Plain
        <3>3. QED
            BY <3>1, <3>2, ScoreArguments, PageScoreIsEngineScore DEF ScoreNow
    <2> HIDE DEF EngineNow
    <2>2. \A i, k \in Apart : ScoreNow(i) > ScoreNow(k) <=> EngineNow(i) > EngineNow(k)
        BY <2>1
    <2>3. QED
        BY <2>2 DEF RanksAsEngine, EngineNow
<1>2. QED
    BY <1>1, RankInvariance, PTL

=============================================================================
