----------------------------- MODULE MCRanking -----------------------------
(***************************************************************************)
(* Values for the constants of Ranking.                                    *)
(***************************************************************************)
EXTENDS Ranking, TLC

CONSTANTS i1, i2, h1, h2

TwoSeeds == i1 :> h1 @@ i2 :> h2

\* job-init-3 and job-init-1.
TwoSeedInfos ==
    i1 :> [context |-> "user_onboarding", base |-> 0, createdAt |-> -2] @@
    i2 :> [context |-> "payment_failed", base |-> 0, createdAt |-> -5]

AllContexts == {"payment_failed", "report_generation", "user_onboarding"}

=============================================================================
