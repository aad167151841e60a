----------------------------- MODULE ZarfClient -----------------------------
(***************************************************************************)
(* Concurrent calls of client.Deploy (internal/zarfclient/zarfclient.go).  *)
(*                                                                         *)
(* The deployments of all resources run in one process.  A call with       *)
(* registry credentials writes them to a temporary directory, points       *)
(* DOCKER_CONFIG, one variable for the whole process, to it, and holds     *)
(* dockerConfigMu until its deferred cleanup; a call without credentials   *)
(* takes no lock.  packager.Deploy runs in a goroutine that the call       *)
(* abandons when its context is done.                                      *)
(*                                                                         *)
(* A temporary directory is named by the call that made it.                *)
(***************************************************************************)
EXTENDS Naturals

CONSTANTS
    Calls,     \* slots for calls under way
    Unset,     \* DOCKER_CONFIG is not set
    Outside,   \* DOCKER_CONFIG as somebody else set it before the start
    None

ASSUME ClientAssumption ==
    /\ Unset # Outside
    /\ {Unset, Outside, None} \cap Calls = {}
    /\ None \notin {Unset, Outside}

VARIABLES
    pc,        \* the statement each call is at
    creds,     \* it was given registry credentials
    ctxDone,   \* its context is cancelled or past its deadline
    mu,        \* the call that holds dockerConfigMu, or None
    dir,       \* what its temporary directory holds
    env,       \* DOCKER_CONFIG: a call's directory, Unset or Outside
    prev,      \* prevValue and hadPrev in its cleanup function
    outside,   \* DOCKER_CONFIG at the start of the process
    packager,  \* its packager.Deploy is running
    layout     \* the package layout it loaded is on disk

vars == <<pc, creds, ctxDone, mu, dir, env, prev, outside, packager, layout>>

ProcessValues == {Unset, Outside}

CallStates ==
    {"idle", "lock", "mkdir", "write", "setenv", "ensure", "load", "connect",
     "deploy", "wait", "cleanup", "restore", "remove", "unlock"}

Init ==
    /\ pc = [d \in Calls |-> "idle"]
    /\ creds = [d \in Calls |-> FALSE]
    /\ ctxDone = [d \in Calls |-> FALSE]
    /\ mu = None
    /\ dir = [d \in Calls |-> "none"]
    /\ outside \in ProcessValues
    /\ env = outside
    /\ prev = [d \in Calls |-> None]
    /\ packager = [d \in Calls |-> FALSE]
    /\ layout = [d \in Calls |-> FALSE]

Goto(d, l) == pc' = [pc EXCEPT ![d] = l]

From(d, l, m) == pc[d] = l /\ Goto(d, m)

dockerVars  == <<mu, dir, env, prev>>
packageVars == <<packager, layout>>
inputVars   == <<creds, ctxDone, outside>>

----------------------------------------------------------------------------
(* Deploy up to configureDockerCredentials.  A slot whose packager still   *)
(* runs is not used again.                                                 *)
Deploy(d) ==
    /\ pc[d] = "idle"
    /\ ~packager[d]
    /\ \E withCredentials \in BOOLEAN :
          /\ creds' = [creds EXCEPT ![d] = withCredentials]
          /\ Goto(d, IF withCredentials THEN "lock" ELSE "ensure")
    /\ ctxDone' = [ctxDone EXCEPT ![d] = FALSE]
    /\ UNCHANGED <<outside, dockerVars, packageVars>>

(* The deadline of the call's context passes, or the controller cancels it *)
(* in Update or Delete.                                                    *)
ContextDone(d) ==
    /\ pc[d] # "idle"
    /\ ~ctxDone[d]
    /\ ctxDone' = [ctxDone EXCEPT ![d] = TRUE]
    /\ UNCHANGED <<pc, creds, outside, dockerVars, packageVars>>

----------------------------------------------------------------------------
(* installDockerConfig *)

LockIgnoringOthers(d) ==
    /\ From(d, "lock", "mkdir")
    /\ mu' = d
    /\ UNCHANGED <<inputVars, dir, env, prev, packageVars>>

Lock(d) ==
    /\ mu = None
    /\ From(d, "lock", "mkdir")
    /\ mu' = d
    /\ UNCHANGED <<inputVars, dir, env, prev, packageVars>>

MkdirTemp(d) ==
    /\ From(d, "mkdir", "write")
    /\ dir' = [dir EXCEPT ![d] = "empty"]
    /\ UNCHANGED <<inputVars, mu, env, prev, packageVars>>

WriteFile(d) ==
    /\ From(d, "write", "setenv")
    /\ dir' = [dir EXCEPT ![d] = "config"]
    /\ UNCHANGED <<inputVars, mu, env, prev, packageVars>>

SetenvWithoutLookup(d) ==
    /\ From(d, "setenv", "ensure")
    /\ env' = d
    /\ UNCHANGED <<inputVars, mu, dir, prev, packageVars>>

Setenv(d) ==
    /\ From(d, "setenv", "ensure")
    /\ prev' = [prev EXCEPT ![d] = env]
    /\ env' = d
    /\ UNCHANGED <<inputVars, mu, dir, packageVars>>

InstallFailsLocked(d) ==
    /\ pc[d] \in {"mkdir", "write", "setenv"}
    /\ Goto(d, "idle")
    /\ dir' = [dir EXCEPT ![d] = "none"]
    /\ UNCHANGED <<inputVars, mu, env, prev, packageVars>>

(* MkdirTemp, WriteFile or Setenv fails: what was made is removed and the  *)
(* mutex released before Deploy returns the error.                         *)
InstallFails(d) ==
    /\ pc[d] \in {"mkdir", "write", "setenv"}
    /\ Goto(d, "idle")
    /\ dir' = [dir EXCEPT ![d] = "none"]
    /\ mu' = None
    /\ UNCHANGED <<inputVars, env, prev, packageVars>>

----------------------------------------------------------------------------
(* The deployment itself. *)

(* A return runs the deferred functions: the layout's cleanup when there   *)
(* is one, then cleanupDockerConfig, which does nothing without credentials.*)
Unwind(d) == Goto(d, IF layout[d] THEN "cleanup"
                     ELSE IF creds[d] THEN "restore" ELSE "idle")

ensureInClusterConfig(d) ==
    /\ From(d, "ensure", "load")
    /\ UNCHANGED <<inputVars, dockerVars, packageVars>>

LoadPackage(d) ==
    /\ From(d, "load", "connect")
    /\ layout' = [layout EXCEPT ![d] = TRUE]
    /\ UNCHANGED <<inputVars, dockerVars, packager>>

(* The kubeconfig's sticky error, a package that cannot be loaded, a       *)
(* cluster that cannot be reached, or a context that is done.              *)
StepFails(d) ==
    /\ pc[d] \in {"ensure", "load", "connect"}
    /\ Unwind(d)
    /\ UNCHANGED <<inputVars, dockerVars, packageVars>>

(* cluster.New waits under the call's own context. *)
ensureClusterConnectivity(d) ==
    /\ ~ctxDone[d]
    /\ From(d, "connect", "deploy")
    /\ UNCHANGED <<inputVars, dockerVars, packageVars>>

executePackageDeployment(d) ==
    /\ From(d, "deploy", "wait")
    /\ packager' = [packager EXCEPT ![d] = TRUE]
    /\ UNCHANGED <<inputVars, dockerVars, layout>>

(* packager.Deploy ends, with or without an error.  Its result goes to a   *)
(* buffered channel: nobody reads it when the call has been abandoned.     *)
PackagerReturns(d) ==
    /\ packager[d]
    /\ packager' = [packager EXCEPT ![d] = FALSE]
    /\ UNCHANGED <<pc, inputVars, dockerVars, layout>>

(* The select: the result is there, or the context is done. *)
ResultReceived(d) ==
    /\ pc[d] = "wait"
    /\ ~packager[d]
    /\ Unwind(d)
    /\ UNCHANGED <<inputVars, dockerVars, packageVars>>

Abandon(d) ==
    /\ pc[d] = "wait"
    /\ ctxDone[d]
    /\ Unwind(d)
    /\ UNCHANGED <<inputVars, dockerVars, packageVars>>

----------------------------------------------------------------------------
(* The deferred functions. *)

CleanupLayout(d) ==
    /\ From(d, "cleanup", IF creds[d] THEN "restore" ELSE "idle")
    /\ layout' = [layout EXCEPT ![d] = FALSE]
    /\ UNCHANGED <<inputVars, dockerVars, packager>>

RemoveBeforeRestore(d) ==
    /\ From(d, "restore", "remove")
    /\ dir' = [dir EXCEPT ![d] = "none"]
    /\ UNCHANGED <<inputVars, mu, env, prev, packageVars>>

UnsetAlways(d) ==
    /\ From(d, "restore", "remove")
    /\ env' = Unset
    /\ prev' = [prev EXCEPT ![d] = None]
    /\ UNCHANGED <<inputVars, mu, dir, packageVars>>

RestoreEnv(d) ==
    /\ From(d, "restore", "remove")
    /\ env' = prev[d]
    /\ prev' = [prev EXCEPT ![d] = None]
    /\ UNCHANGED <<inputVars, mu, dir, packageVars>>

(* Its error is ignored: a directory that cannot be removed stays behind,  *)
(* unused. *)
RemoveTempDir(d) ==
    /\ From(d, "remove", "unlock")
    /\ dir' = [dir EXCEPT ![d] = "none"]
    /\ UNCHANGED <<inputVars, mu, env, prev, packageVars>>

UnlockDockerConfig(d) ==
    /\ From(d, "unlock", "idle")
    /\ mu' = None
    /\ UNCHANGED <<inputVars, dir, env, prev, packageVars>>

----------------------------------------------------------------------------
(* What a call does by itself once it has the mutex, if it needs it. *)
Step(d) ==
    \/ MkdirTemp(d) \/ WriteFile(d) \/ Setenv(d) \/ InstallFails(d)
    \/ ensureInClusterConfig(d) \/ LoadPackage(d) \/ StepFails(d)
    \/ ensureClusterConnectivity(d) \/ executePackageDeployment(d)
    \/ ResultReceived(d) \/ Abandon(d)
    \/ CleanupLayout(d) \/ RestoreEnv(d) \/ RemoveTempDir(d) \/ UnlockDockerConfig(d)

Next ==
    \E d \in Calls :
        \/ Deploy(d) \/ ContextDone(d) \/ Lock(d) \/ Step(d) \/ PackagerReturns(d)

(* Every call's context has a deadline; loading and connecting end with    *)
(* it; a waiter of a Go mutex that was passed over for 1ms is served next. *)
(* packager.Deploy need not end.                                           *)
Fairness ==
    \A d \in Calls :
        /\ WF_vars(ContextDone(d))
        /\ WF_vars(Step(d))
        /\ SF_vars(Lock(d))

Spec == Init /\ [][Next]_vars

FairSpec == Spec /\ Fairness

----------------------------------------------------------------------------
(* Properties. *)

TypeOK ==
    /\ pc \in [Calls -> CallStates]
    /\ creds \in [Calls -> BOOLEAN]
    /\ ctxDone \in [Calls -> BOOLEAN]
    /\ mu \in Calls \cup {None}
    /\ dir \in [Calls -> {"none", "empty", "config"}]
    /\ env \in Calls \cup ProcessValues
    /\ prev \in [Calls -> Calls \cup ProcessValues \cup {None}]
    /\ outside \in ProcessValues
    /\ packager \in [Calls -> BOOLEAN]
    /\ layout \in [Calls -> BOOLEAN]

(* While DOCKER_CONFIG names a temporary directory, the credentials are in *)
(* that directory and the call that made it holds dockerConfigMu: the      *)
(* variable never names a directory that is gone or half written.          *)
NoDanglingConfig == env \in Calls => dir[env] = "config" /\ mu = env

(* A call with registry credentials loads its package with its own, not    *)
(* with those another call installed meanwhile.                            *)
OwnCredentials ==
    \A d \in Calls :
        creds[d] /\ pc[d] \in {"load", "connect", "deploy", "wait"} => env = d

(* When no call holds dockerConfigMu, DOCKER_CONFIG is what it was before  *)
(* the first deployment and no credentials are left on disk, whichever     *)
(* calls failed where.                                                     *)
RestoredWhenFree ==
    mu = None => env = outside /\ \A d \in Calls : dir[d] = "none"

(* A call of Deploy returns, though a packager.Deploy with credentials may *)
(* hang for ever while others wait for dockerConfigMu.                     *)
DeployReturns == \A d \in Calls : (pc[d] # "idle") ~> (pc[d] = "idle")

(* installDockerConfig implements the lease of one configuration. *)
Lease == INSTANCE CredentialLease
    WITH Clients <- Calls, Values <- ProcessValues, own <- outside, config <- env,
         waiting <- {d \in Calls : pc[d] \in {"lock", "mkdir", "write", "setenv"}}

LeaseImplemented == Lease!Spec

(* A call whose context is done while it waits for dockerConfigMu does not *)
(* go on to install its credentials.                                       *)
CancelledStaysOut ==
    [][ \A d \in Calls : pc[d] = "lock" /\ ctxDone[d] => pc'[d] \in {"lock", "idle"} ]_vars

(* The directory one deployment materialised is for that deployment: none  *)
(* that has no credentials loads its package under it.                     *)
NoBorrowedCredentials ==
    \A d \in Calls : pc[d] = "load" /\ ~creds[d] => env \notin Calls

(* A cancelled deployment is aborted: packager.Deploy does not go on while *)
(* the deferred cleanup removes the layout it reads from.                  *)
LayoutOutlivesPackager == \A d \in Calls : packager[d] => layout[d]

============================================================================
