-------------------------- MODULE CredentialLease --------------------------
(***************************************************************************)
(* What installDockerConfig and its cleanup promise: the process's Docker  *)
(* configuration is lent to one deployment at a time, every deployment     *)
(* that asks gets it or gives up, and between two loans the process has    *)
(* the configuration it was started with.                                  *)
(***************************************************************************)

CONSTANTS
    Clients,  \* deployments with registry credentials
    Values    \* what the configuration may be before anybody borrows it

VARIABLES
    own,      \* the process's own configuration
    config,   \* the configuration in force: own, or that of a client
    waiting   \* the clients that asked and were not served

vars == <<own, config, waiting>>

Init ==
    /\ own \in Values
    /\ config = own
    /\ waiting = {}

Request(c) ==
    /\ c \notin waiting
    /\ config # c
    /\ waiting' = waiting \cup {c}
    /\ UNCHANGED <<own, config>>

Grant(c) ==
    /\ c \in waiting
    /\ config = own
    /\ config' = c
    /\ waiting' = waiting \ {c}
    /\ UNCHANGED own

GiveUp(c) ==
    /\ c \in waiting
    /\ waiting' = waiting \ {c}
    /\ UNCHANGED <<own, config>>

Release(c) ==
    /\ config = c
    /\ config' = own
    /\ UNCHANGED <<own, waiting>>

Next == \E c \in Clients : Request(c) \/ Grant(c) \/ GiveUp(c) \/ Release(c)

SafeSpec == Init /\ [][Next]_vars

(* A loan ends, and no client waits for ever while others are served.      *)
Fairness == \A c \in Clients : WF_vars(Release(c)) /\ SF_vars(Grant(c) \/ GiveUp(c))

Spec == SafeSpec /\ Fairness

============================================================================
