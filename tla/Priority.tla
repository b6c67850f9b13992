------------------------------ MODULE Priority ------------------------------
(***************************************************************************)
(* The causal prioritization rules of queue/priority.go.                   *)
(*                                                                         *)
(* Go computes scores as float64.  Every constant of the rule engine is a  *)
(* multiple of a tenth, so rates and values are integers, in tenths: a     *)
(* BaseRate of 0.1 points per second is 1, a rule's value of 500.0 points  *)
(* is 5000.  Ages are in tenths of a second, and so scores in hundredths   *)
(* of a point.  Rounding of float64 sums is not modelled.                  *)
(*                                                                         *)
(* A rule's id and target class are left out: no statement of the engine   *)
(* reads them.                                                             *)
(***************************************************************************)
EXTENDS Integers, SequencesExt

RuleType == {"boost", "starvation_boost", "context_outranks_age"}

BaseRate == 1      \* starvationRate := 0.1

\* A list of rules, of any types and for any contexts, as an operator may post.
IsRuleList(list) ==
    /\ Len(list) \in Nat
    /\ DOMAIN list = 1 .. Len(list)
    /\ \A k \in DOMAIN list : list[k].value \in Int

\* No rule of the list lets a job's age count for nothing, or against it.
RatesPositive(list) ==
    \A k \in DOMAIN list : list[k].type = "starvation_boost" => list[k].value > 0

Rule(context, type, value) ==
    [context |-> context, type |-> type, value |-> value]

DefaultRuleList ==
    << Rule("payment_failed",    "boost",                5000),
       Rule("user_onboarding",   "context_outranks_age",  300),
       Rule("report_generation", "starvation_boost",        5) >>

\* One turn of the loop over the rules, on the score and the starvation rate
\* reached so far.  The weight of an outranking rule uses the rate in force at
\* its place in the list: value * rate * 10.0 points.
ApplyRule(context, acc, rule) ==
    CASE rule.type = "boost" /\ context = rule.context ->
            [acc EXCEPT !.score = @ + rule.value]
      [] rule.type = "starvation_boost" /\ rule.context \in {"all", context} ->
            [acc EXCEPT !.rate = rule.value]
      [] rule.type = "context_outranks_age" /\ context = rule.context ->
            [acc EXCEPT !.score = @ + rule.value * acc.rate]
      [] OTHER -> acc

\* A clock that was set back yields a negative age, which counts as zero.
EffectiveAge(age) == IF age < 0 THEN 0 ELSE age

\* The score of a job of this context and base priority that has been in the
\* table for age tenths of a second.
ComputePriorityScore(context, base, age, rules) ==
    LET loop == FoldLeft(LAMBDA acc, rule : ApplyRule(context, acc, rule),
                         [score |-> 10 * base, rate |-> BaseRate], rules)
    IN  10 * loop.score + EffectiveAge(age) * loop.rate

=============================================================================
