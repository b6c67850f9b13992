------------------------------ MODULE MCBroker ------------------------------
(***************************************************************************)
(* Values for the constants of Broker: those of the pool's runs.           *)
(***************************************************************************)
EXTENDS MCWorkerPool, Broker

TwoPayloads ==
    { MCRequest("p1", "payment_failed", 10, 0),
      MCRequest("p2", "report_generation", 10, 0) }

OneRequest == { MCRequest("p1", "payment_failed", 10, 0) }

InterchangeableClients ==
    Permutations(Ids) \cup Permutations(Clients) \cup Permutations(Scrapers)

=============================================================================
