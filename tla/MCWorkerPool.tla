---------------------------- MODULE MCWorkerPool ----------------------------
(***************************************************************************)
(* Values for the constants of WorkerPool.                                 *)
(***************************************************************************)
EXTENDS PoolRefinement, TLC

MCBasePriorities == {0, 10, 40}

MCContexts == {"payment_failed", "report_generation", "user_onboarding"}

\* An operator's list: the starvation rule for all contexts, ahead of the
\* outranking rule, whose weight it changes.
OperatorRuleList ==
    << Rule("all", "starvation_boost", 20),
       Rule("user_onboarding", "context_outranks_age", 300) >>

OnlyDefaultRules == {DefaultRuleList}
TwoRuleLists     == {DefaultRuleList, OperatorRuleList}

MCRequest(payload, context, base, maxRetries) ==
    [payload |-> payload, context |-> context, base |-> base,
     maxRetries |-> maxRetries]

\* A job that may fail once and one that may not fail at all; the omitted
\* max_retries of a request is 0.
TwoRequests ==
    { MCRequest("p1", "payment_failed", 10, 1),
      MCRequest("p2", "report_generation", 10, 0) }

\* A payload that is sent twice, with another context and number of retries,
\* and a second payload.
ThreeRequests ==
    { MCRequest("p1", "payment_failed", 10, 0),
      MCRequest("p1", "report_generation", 10, 1),
      MCRequest("p2", "report_generation", 10, 0) }

\* Retries: twice, and a negative number of times; a context whose score the
\* two rule lists compute differently.
RetryRequests ==
    { MCRequest("p1", "user_onboarding", 10, 2),
      MCRequest("p2", "report_generation", 10, -1) }

Interchangeable == Permutations(Ids) \cup Permutations(Workers)

=============================================================================
