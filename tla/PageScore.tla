----------------------------- MODULE PageScore -----------------------------
(***************************************************************************)
(* How the simulator of the web page scores a waiting job, in a loop of    *)
(* its own over the rules (src/App.tsx), beside queue/priority.go.  Scores *)
(* are integers, in the units of Priority.  And how long a job waits for a *)
(* retry.                                                                  *)
(***************************************************************************)
EXTENDS Priority

INITIAL_RULES ==
    << Rule("payment_failed",    "boost",                5000),
       Rule("user_onboarding",   "context_outranks_age",  300),
       Rule("report_generation", "starvation_boost",        5) >>

\* Mutant: a rule is for every context.
AnyContext(context, rule) == TRUE

OfContext(context, rule) == context = rule.context

\* Mutant: the weight is not scaled.
UnscaledWeight(value, rate) == (value * rate) \div 10

\* value * starvationRate * 12.0 points, where the engine has 10.0.
OutrankWeight(value, rate) == (12 * value * rate) \div 10

\* One turn of the loop over the rules.
ApplyPageRule(context, acc, rule) ==
    CASE rule.type = "boost" /\ OfContext(context, rule) ->
            [acc EXCEPT !.score = @ + rule.value]
      [] rule.type = "starvation_boost" /\ rule.context \in {"all", context} ->
            [acc EXCEPT !.rate = rule.value]
      [] rule.type = "context_outranks_age" /\ OfContext(context, rule) ->
            [acc EXCEPT !.score = @ + OutrankWeight(rule.value, acc.rate)]
      [] OTHER -> acc

\* The score of a job of this context and base priority that was created age
\* tenths of a second ago.
PageScoreOf(context, base, age, rules) ==
    LET loop == FoldLeft(LAMBDA acc, rule : ApplyPageRule(context, acc, rule),
                         [score |-> 10 * base, rate |-> BaseRate], rules)
    IN  10 * loop.score + age * loop.rate

\* backoffMs = 2^n * 1500, after the n-th failure.
BackoffSeconds(n) == 3 * 2 ^ (n - 1)

=============================================================================
