--------------------------- MODULE CircuitBreaker ---------------------------
(***************************************************************************)
(* What the circuit breaker of a resource promises, whoever writes to its  *)
(* status: deployments report their results to it one by one, limit        *)
(* failures in a row open it, and while it cools down only a deployment    *)
(* that succeeds, or the end of the resource, closes it.                   *)
(***************************************************************************)
EXTENDS Naturals

CONSTANTS
    Workers,   \* deployments
    Owners,    \* resources, one after the other
    None,      \* no resource
    Limit      \* failures in a row that open the breaker

VARIABLES
    owner,     \* the resource the breaker belongs to
    failures,  \* failures in a row
    last,      \* the last of them: "none", "recent" or "old"
    running    \* the deployments whose result is still to come

vars == <<owner, failures, last, running>>

Cooling == failures = Limit /\ last = "recent"

Init ==
    /\ owner = None
    /\ failures = 0
    /\ last = "none"
    /\ running = {}

Closed == failures' = 0 /\ last' = "none"

(* The resource is created or gone: nothing is left of earlier failures.   *)
Replace ==
    /\ owner' \in Owners \cup {None}
    /\ owner' # owner
    /\ Closed
    /\ UNCHANGED running

Launch(d) ==
    /\ d \notin running
    /\ running' = running \cup {d}
    /\ UNCHANGED <<owner, failures, last>>

Fail(d) ==
    /\ owner # None
    /\ d \in running
    /\ running' = running \ {d}
    /\ failures' = IF failures < Limit THEN failures + 1 ELSE Limit
    /\ last' = "recent"
    /\ UNCHANGED owner

Succeed(d) ==
    /\ owner # None
    /\ d \in running
    /\ running' = running \ {d}
    /\ Closed
    /\ UNCHANGED owner

(* Cancelled, or its result cannot be written, or the provider restarts. *)
Lose(lost) ==
    /\ running' = running \ lost
    /\ UNCHANGED <<owner, failures, last>>

(* The reconciler forgets the failures when it may deploy again. *)
Resume ==
    /\ ~Cooling
    /\ Closed
    /\ UNCHANGED <<owner, running>>

CoolDown ==
    /\ last = "recent"
    /\ last' = "old"
    /\ UNCHANGED <<owner, failures, running>>

Next ==
    \/ Replace \/ Resume \/ CoolDown
    \/ \E d \in Workers : Launch(d) \/ Fail(d) \/ Succeed(d)
    \/ \E lost \in SUBSET Workers : Lose(lost)

Spec == Init /\ [][Next]_vars

============================================================================
