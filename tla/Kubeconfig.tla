----------------------------- MODULE Kubeconfig -----------------------------
(***************************************************************************)
(* The in-cluster kubeconfig of internal/zarfclient/zarfclient.go.         *)
(*                                                                         *)
(* New, called by every Connect, and client.Deploy, called by background   *)
(* deployments, call ensureInClusterConfig concurrently; a sync.Once lets  *)
(* the first of them write a kubeconfig from the service account's files   *)
(* and point KUBECONFIG to it.  The kubelet rotates the account's token,   *)
(* and an old token expires.                                               *)
(***************************************************************************)
EXTENDS Naturals

CONSTANTS
    Callers,    \* goroutines that call New or Deploy
    MaxToken,   \* bound on rotations
    None

ASSUME KubeconfigAssumption ==
    /\ {None, "done"} \cap Callers = {}
    /\ None # "done"
    /\ None \notin Nat
    /\ None \notin [server : {"clusterIP", "anyAddress"}, token : Nat]
    /\ MaxToken \in Nat

VARIABLES
    inCluster,  \* KUBERNETES_SERVICE_HOST is set
    host,       \* the address it gives
    token,      \* the service account's token, counted by rotations
    expired,    \* the tokens below this one are no longer accepted
    pc,         \* where each caller is in ensureInClusterConfig
    once,       \* kubeconfigSetupOnce: None, the caller inside, or "done"
    setupErr,   \* kubeconfigSetupErr is set
    localErr,   \* a caller's own err
    read,       \* the token setupKubeconfigFromInCluster has read
    file,       \* the kubeconfig at kubeconfigPath, or None
    kubeconfig  \* KUBECONFIG points to kubeconfigPath

vars == <<inCluster, host, token, expired, pc, once, setupErr, localErr, read,
          file, kubeconfig>>

outsideVars == <<inCluster, host, token, expired>>
resultVars  == <<setupErr, localErr>>
fileVars    == <<read, file, kubeconfig>>

Hosts == {"clusterIP", "anyAddress"}

CallStates == {"idle", "do", "config", "token", "ca", "write", "setenv", "finish",
               "check", "ready", "error"}

Init ==
    /\ inCluster \in BOOLEAN
    /\ host \in Hosts
    /\ token = 0
    /\ expired = 0
    /\ pc = [c \in Callers |-> "idle"]
    /\ once = None
    /\ setupErr = FALSE
    /\ localErr = [c \in Callers |-> FALSE]
    /\ read = None
    /\ file = None
    /\ kubeconfig = FALSE

From(c, l, m) == pc[c] = l /\ pc' = [pc EXCEPT ![c] = m]

----------------------------------------------------------------------------
(* New asks only inside a cluster and goes on with a logged error; Deploy  *)
(* asks always and returns the error.  Neither call keeps state of its own.*)
ensureInClusterConfig(c) ==
    /\ From(c, "idle", "do")
    /\ localErr' = [localErr EXCEPT ![c] = FALSE]
    /\ UNCHANGED <<outsideVars, once, setupErr, fileVars>>

(* Once.Do: the first caller runs the function, the others wait until it   *)
(* has returned and skip it.                                               *)
EnterOnce(c) ==
    /\ once = None
    /\ From(c, "do", "config")
    /\ once' = c
    /\ UNCHANGED <<outsideVars, resultVars, fileVars>>

SkipOnceEarly(c) ==
    /\ once # None
    /\ From(c, "do", "check")
    /\ UNCHANGED <<outsideVars, once, resultVars, fileVars>>

SkipOnce(c) ==
    /\ once = "done"
    /\ From(c, "do", "check")
    /\ UNCHANGED <<outsideVars, once, resultVars, fileVars>>

LeaveOnceOpen(c) ==
    /\ From(c, "finish", IF localErr[c] THEN "error" ELSE "check")
    /\ UNCHANGED <<outsideVars, once, resultVars, fileVars>>

LeaveOnce(c) ==
    /\ From(c, "finish", IF localErr[c] THEN "error" ELSE "check")
    /\ once' = "done"
    /\ UNCHANGED <<outsideVars, resultVars, fileVars>>

ReturnSetupErr(c) ==
    /\ From(c, "check", IF setupErr THEN "error" ELSE "ready")
    /\ UNCHANGED <<outsideVars, once, resultVars, fileVars>>

(* The caller is done with the cluster. *)
Leave(c) ==
    /\ pc[c] \in {"ready", "error"}
    /\ From(c, pc[c], "idle")
    /\ UNCHANGED <<outsideVars, once, resultVars, fileVars>>

----------------------------------------------------------------------------
(* setupKubeconfigFromInCluster *)

NotInCluster(c) ==
    /\ ~inCluster
    /\ From(c, "config", "finish")
    /\ UNCHANGED <<outsideVars, once, resultVars, fileVars>>

InClusterConfig(c) ==
    /\ inCluster
    /\ From(c, "config", "token")
    /\ UNCHANGED <<outsideVars, once, resultVars, fileVars>>

ReadNoToken(c) ==
    /\ From(c, "token", "ca")
    /\ UNCHANGED <<outsideVars, once, resultVars, fileVars>>

ReadToken(c) ==
    /\ From(c, "token", "ca")
    /\ read' = token
    /\ UNCHANGED <<outsideVars, once, resultVars, file, kubeconfig>>

ReadCA(c) ==
    /\ From(c, "ca", "write")
    /\ UNCHANGED <<outsideVars, once, resultVars, fileVars>>

WriteToFile(c) ==
    /\ From(c, "write", "setenv")
    /\ file' = [server |-> host, token |-> read]
    /\ UNCHANGED <<outsideVars, once, resultVars, read, kubeconfig>>

Setenv(c) ==
    /\ From(c, "setenv", "finish")
    /\ kubeconfig' = TRUE
    /\ UNCHANGED <<outsideVars, once, resultVars, read, file>>

SetupFailsQuietly(c) ==
    /\ inCluster
    /\ pc[c] \in {"config", "token", "ca", "write", "setenv"}
    /\ From(c, pc[c], "finish")
    /\ localErr' = [localErr EXCEPT ![c] = TRUE]
    /\ UNCHANGED <<outsideVars, once, setupErr, fileVars>>

(* Any of the steps fails: the error is kept for every later caller. *)
SetupFails(c) ==
    /\ inCluster
    /\ pc[c] \in {"config", "token", "ca", "write", "setenv"}
    /\ From(c, pc[c], "finish")
    /\ setupErr' = TRUE
    /\ localErr' = [localErr EXCEPT ![c] = TRUE]
    /\ UNCHANGED <<outsideVars, once, fileVars>>

----------------------------------------------------------------------------
(* The kubelet and the API server. *)

RotateToken ==
    /\ token < MaxToken
    /\ token' = token + 1
    /\ UNCHANGED <<inCluster, host, expired, pc, once, resultVars, fileVars>>

TokenExpires ==
    /\ expired < token
    /\ expired' = expired + 1
    /\ UNCHANGED <<inCluster, host, token, pc, once, resultVars, fileVars>>

(* The container is started anew, with an empty /tmp. *)
Restart ==
    /\ pc' = [c \in Callers |-> "idle"]
    /\ once' = None
    /\ setupErr' = FALSE
    /\ localErr' = [c \in Callers |-> FALSE]
    /\ read' = None
    /\ file' = None
    /\ kubeconfig' = FALSE
    /\ UNCHANGED outsideVars

Step(c) ==
    \/ EnterOnce(c) \/ SkipOnce(c) \/ LeaveOnce(c) \/ ReturnSetupErr(c)
    \/ NotInCluster(c) \/ InClusterConfig(c) \/ ReadToken(c) \/ ReadCA(c)
    \/ WriteToFile(c) \/ Setenv(c) \/ SetupFails(c)

Next ==
    \/ \E c \in Callers : ensureInClusterConfig(c) \/ Step(c) \/ Leave(c)
    \/ RotateToken \/ TokenExpires \/ Restart

Spec == Init /\ [][Next]_vars

(* Go schedules every goroutine that can run. *)
FairSpec == Spec /\ \A c \in Callers : WF_vars(Step(c))

----------------------------------------------------------------------------
(* Properties. *)

TypeOK ==
    /\ inCluster \in BOOLEAN
    /\ host \in Hosts
    /\ token \in 0..MaxToken
    /\ expired \in 0..token
    /\ pc \in [Callers -> CallStates]
    /\ once \in Callers \cup {None, "done"}
    /\ setupErr \in BOOLEAN
    /\ localErr \in [Callers -> BOOLEAN]
    /\ read \in (0..MaxToken) \cup {None}
    /\ file \in [server : Hosts, token : 0..MaxToken] \cup {None}
    /\ kubeconfig \in BOOLEAN

(* Whoever is told inside a cluster that the set-up succeeded finds the    *)
(* kubeconfig written and KUBECONFIG set: nobody overtakes the caller that *)
(* writes it, and the first caller's failure is every later caller's.      *)
ReadyMeansConfigured ==
    \A c \in Callers : pc[c] = "ready" /\ inCluster => file # None /\ kubeconfig

(* Two callers of one process never get different answers. *)
AnswersAgree ==
    \A c, d \in Callers : ~(pc[c] = "ready" /\ pc[d] = "error")

(* A caller gets an answer, whoever fails inside the Once. *)
CallerReturns ==
    \A c \in Callers : (pc[c] = "do") ~> (pc[c] \in {"ready", "error", "idle"})

(* The Zarf library can use the generated kubeconfig: its token is one the *)
(* API server accepts.                                                     *)
CredentialsUsable ==
    \A c \in Callers : pc[c] = "ready" /\ file # None => file.token >= expired

(* The server of the kubeconfig is one that pods can reach, whatever the   *)
(* environment variables of the pod say.                                   *)
ServerReachable == file # None => file.server # "anyAddress"

============================================================================
