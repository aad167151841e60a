----------------------- MODULE ZarfPackageRefinement -----------------------
(***************************************************************************)
(* The status of a ZarfPackage, written by passes, by the goroutines of    *)
(* deployments and by time, implements one CircuitBreaker.                 *)
(***************************************************************************)
EXTENDS ZarfPackage

Reporting == {"launched", "loading", "executing", "succeeded", "failed"}

Running == {d \in Deployments : deploy[d].pc \in Reporting}

Breaker == INSTANCE CircuitBreaker
    WITH Workers  <- Deployments, Owners <- UIDs, Limit <- MaxConsecutiveFailures,
         owner    <- IF api = None THEN None ELSE api.uid,
         failures <- IF api = None THEN 0 ELSE api.failures,
         last     <- IF api = None THEN "none" ELSE api.lastFailure,
         running  <- Running

(* No interleaving of status updates from stale copies, results of         *)
(* deployments, restarts and edits loses a failure or closes a breaker     *)
(* that cools down.                                                        *)
BreakerImplemented == Breaker!Spec

============================================================================
