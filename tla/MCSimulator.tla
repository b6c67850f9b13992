---------------------------- MODULE MCSimulator ----------------------------
(***************************************************************************)
(* Values for the constants of Simulator.                                  *)
(***************************************************************************)
EXTENDS Simulator, TLC

CONSTANTS i1, h1

OneSeed == i1 :> h1

\* The ids that are not the seed's are interchangeable, and so are workers.
InterchangeableWorkers ==
    Permutations(Workers) \cup Permutations(Ids \ Seeds)
                          \cup Permutations(Hashes \ Range(SeedHash))

=============================================================================
