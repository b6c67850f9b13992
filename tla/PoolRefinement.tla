--------------------------- MODULE PoolRefinement ---------------------------
(***************************************************************************)
(* The broker process implements TaskQueue: what a row's columns and the   *)
(* workers' variables mean to those who use the queue.                     *)
(***************************************************************************)
EXTENDS WorkerPool

CONSTANTS NoPayload, Nobody

ASSUME RefinementAssumption == Nobody \notin Workers

StageOf(s) ==
    CASE s = "absent"                 -> "none"
      [] s = "pending"                -> "waiting"
      [] s \in {"reserved", "running"} -> "taken"
      [] s = "done"                   -> "finished"
      [] s \in {"failed", "dead"}      -> "given_up"

Stages   == [i \in Ids |-> StageOf(state[i])]
Sent     == [i \in Ids |-> IF i \in Rows THEN req[i].payload ELSE NoPayload]
Limits   == [i \in Ids |-> IF i \in Rows THEN Allowed(i) ELSE 0]
Holders(i) == {w \in Workers : held[w] = i}
TakenBy  == [i \in Ids |-> IF Holders(i) = {} THEN Nobody
                           ELSE CHOOSE w \in Workers : held[w] = i]

Queue == INSTANCE TaskQueue WITH
            Jobs <- Ids, Takers <- Workers,
            TryLimits <- {AllowedTries(q) : q \in Requests},
            stage <- Stages, payload <- Sent, limit <- Limits,
            tries <- retries, taker <- TakenBy

\* Whatever its workers, requests and failures do, the process behaves like
\* the queue its users rely on: a job taken is reported on by its taker only,
\* is given up after its last try and not before, and never has a live double.
ImplementsTaskQueue == Queue!Spec

=============================================================================
