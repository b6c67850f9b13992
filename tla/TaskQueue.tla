----------------------------- MODULE TaskQueue -----------------------------
(***************************************************************************)
(* What the task queue promises to those who use it: README.md, section    *)
(* "Bulletproof Job Lifecycle", as far as the program keeps it.            *)
(*                                                                         *)
(* A job waits, is taken by one taker, and goes back to waiting, is        *)
(* finished, or is given up after its last try.  A taker may disappear;    *)
(* its job then stays taken, by nobody, and is lost.  Given-up jobs may be *)
(* revived, all at once, with all their tries.  No two live jobs have the  *)
(* same payload.                                                           *)
(*                                                                         *)
(* Nothing is said about tables, clocks, scores, channels or processes.    *)
(***************************************************************************)
EXTENDS Integers

CONSTANTS
    Jobs, Payloads, NoPayload,
    Takers, Nobody,
    TryLimits       \* numbers of tries a job may be given

VARIABLES
    stage,      \* where each job is in its life
    payload,    \* what it carries
    limit,      \* how often it may be tried
    tries,      \* how often it failed since it was submitted or revived
    taker       \* who has taken it

queueVars == <<stage, payload, limit, tries, taker>>

Stage == {"none", "waiting", "taken", "finished", "given_up"}

Live(j) == stage[j] \in {"waiting", "taken"}

Init ==
    /\ stage = [j \in Jobs |-> "none"]
    /\ payload = [j \in Jobs |-> NoPayload]
    /\ limit = [j \in Jobs |-> 0]
    /\ tries = [j \in Jobs |-> 0]
    /\ taker = [j \in Jobs |-> Nobody]

Submit(j, p, n) ==
    /\ stage[j] = "none"
    /\ \A k \in Jobs : Live(k) => payload[k] # p
    /\ stage' = [stage EXCEPT ![j] = "waiting"]
    /\ payload' = [payload EXCEPT ![j] = p]
    /\ limit' = [limit EXCEPT ![j] = n]
    /\ UNCHANGED <<tries, taker>>

\* A taker has one job at a time.
Take(j, t) ==
    /\ stage[j] = "waiting"
    /\ \A k \in Jobs : taker[k] # t
    /\ stage' = [stage EXCEPT ![j] = "taken"]
    /\ taker' = [taker EXCEPT ![j] = t]
    /\ UNCHANGED <<payload, limit, tries>>

\* Only the taker's report changes a taken job.
GiveBack(j, s) ==
    /\ stage[j] = "taken"
    /\ taker[j] # Nobody
    /\ stage' = [stage EXCEPT ![j] = s]
    /\ taker' = [taker EXCEPT ![j] = Nobody]
    /\ UNCHANGED <<payload, limit>>

Finish(j) == GiveBack(j, "finished") /\ UNCHANGED tries

FailedTry(j) == tries' = [tries EXCEPT ![j] = tries[j] + 1]

Retry(j) == tries[j] + 1 < limit[j] /\ GiveBack(j, "waiting") /\ FailedTry(j)

GiveUp(j) == tries[j] + 1 = limit[j] /\ GiveBack(j, "given_up") /\ FailedTry(j)

\* Some takers disappear, or forget their job.
Vanish(lost) ==
    /\ taker' = [j \in Jobs |-> IF taker[j] \in lost THEN Nobody ELSE taker[j]]
    /\ UNCHANGED <<stage, payload, limit, tries>>

GivenUp(j) == stage[j] = "given_up"

Revive ==
    /\ \A j, k \in Jobs : /\ GivenUp(j)
                          /\ GivenUp(k) \/ Live(k)
                          /\ payload[j] = payload[k]
                          => j = k
    /\ stage' = [j \in Jobs |-> IF GivenUp(j) THEN "waiting" ELSE stage[j]]
    /\ tries' = [j \in Jobs |-> IF GivenUp(j) THEN 0 ELSE tries[j]]
    /\ UNCHANGED <<payload, limit, taker>>

Next ==
    \/ \E j \in Jobs, p \in Payloads, n \in TryLimits : Submit(j, p, n)
    \/ \E j \in Jobs, t \in Takers : Take(j, t)
    \/ \E j \in Jobs : Finish(j) \/ Retry(j) \/ GiveUp(j)
    \/ \E lost \in SUBSET Takers : Vanish(lost)
    \/ Revive

Spec == Init /\ [][Next]_queueVars

=============================================================================
