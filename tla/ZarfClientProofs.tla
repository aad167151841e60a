-------------------------- MODULE ZarfClientProofs --------------------------
(* Safety of ZarfClient for any number of calls, and the refinement of     *)
(* CredentialLease.                                                        *)
EXTENDS ZarfClient, TLAPS

(* A call that holds dockerConfigMu. *)
Holding(d) == creds[d] /\ pc[d] \notin {"idle", "lock"}

Installing == {"mkdir", "write", "setenv"}

Installed == {"ensure", "load", "connect", "deploy", "wait", "cleanup", "restore"}

(* The mutex is held by the call, if any, that is past Lock and has not    *)
(* unlocked.                                                               *)
MutexInv == \A d \in Calls : mu = d <=> Holding(d)

(* Which calls are inside installDockerConfig and its cleanup. *)
CredsInv ==
    \A d \in Calls :
        pc[d] \in {"lock", "restore", "remove", "unlock"} \cup Installing => creds[d]

(* DOCKER_CONFIG, and what prevValue remembers, by where the holder is. *)
EnvInv ==
    /\ mu = None => env = outside
    /\ \A d \in Calls : Holding(d) =>
         IF pc[d] \in Installed THEN env = d /\ prev[d] = outside ELSE env = outside

(* The temporary directory, by where its call is. *)
DirInv ==
    \A d \in Calls :
        dir[d] = IF ~Holding(d) \/ pc[d] \in {"mkdir", "unlock"} THEN "none"
                 ELSE IF pc[d] = "write" THEN "empty" ELSE "config"

IInv == TypeOK /\ MutexInv /\ CredsInv /\ EnvInv /\ DirInv

USE ClientAssumption

----------------------------------------------------------------------------
LEMMA InitIInv == Init => IInv
  BY DEF Init, IInv, TypeOK, MutexInv, CredsInv, EnvInv, DirInv, Holding,
         CallStates, ProcessValues, Installing, Installed

(* Unwinding keeps the invariant: a call with credentials goes on to       *)
(* restore them, one without never held the mutex.                         *)
LEMMA UnwindIInv ==
  ASSUME IInv, NEW d \in Calls, Unwind(d),
         pc[d] \in {"ensure", "load", "connect", "wait"},
         UNCHANGED <<inputVars, dockerVars, packageVars>>
  PROVE  IInv'
  <1>1. TypeOK'
    BY DEF IInv, TypeOK, Unwind, Goto, CallStates, inputVars, dockerVars, packageVars
  <1>2. MutexInv'
    BY DEF IInv, TypeOK, MutexInv, Holding, Unwind, Goto, inputVars, dockerVars
  <1>3. CredsInv'
    BY DEF IInv, TypeOK, CredsInv, Installing, Unwind, Goto, inputVars
  <1>4. EnvInv'
    BY DEF IInv, TypeOK, MutexInv, EnvInv, Holding, Installed, Unwind, Goto,
           inputVars, dockerVars
  <1>5. DirInv'
    BY DEF IInv, TypeOK, DirInv, Holding, Unwind, Goto, inputVars, dockerVars
  <1> QED BY <1>1, <1>2, <1>3, <1>4, <1>5 DEF IInv

LEMMA NextIInv == IInv /\ [Next]_vars => IInv'
  <1> SUFFICES ASSUME IInv, [Next]_vars PROVE IInv'
    OBVIOUS
  <1> USE DEF IInv, TypeOK, MutexInv, CredsInv, EnvInv, DirInv, Holding,
              CallStates, ProcessValues, Installing, Installed,
              inputVars, dockerVars, packageVars, From, Goto
  <1>1. ASSUME NEW d \in Calls, Deploy(d) PROVE IInv'
    BY <1>1 DEF Deploy
  <1>2. ASSUME NEW d \in Calls, ContextDone(d) PROVE IInv'
    BY <1>2 DEF ContextDone
  <1>3. ASSUME NEW d \in Calls, Lock(d) PROVE IInv'
    BY <1>3 DEF Lock
  <1>4. ASSUME NEW d \in Calls, MkdirTemp(d) PROVE IInv'
    BY <1>4 DEF MkdirTemp
  <1>5. ASSUME NEW d \in Calls, WriteFile(d) PROVE IInv'
    BY <1>5 DEF WriteFile
  <1>6. ASSUME NEW d \in Calls, Setenv(d) PROVE IInv'
    BY <1>6 DEF Setenv
  <1>7. ASSUME NEW d \in Calls, InstallFails(d) PROVE IInv'
    BY <1>7 DEF InstallFails
  <1>8. ASSUME NEW d \in Calls,
               ensureInClusterConfig(d) \/ ensureClusterConnectivity(d)
        PROVE  IInv'
    BY <1>8 DEF ensureInClusterConfig, ensureClusterConnectivity
  <1>9. ASSUME NEW d \in Calls, LoadPackage(d) PROVE IInv'
    BY <1>9 DEF LoadPackage
  <1>9a. ASSUME NEW d \in Calls, executePackageDeployment(d) PROVE IInv'
    BY <1>9a DEF executePackageDeployment
  <1>10. ASSUME NEW d \in Calls, StepFails(d) \/ ResultReceived(d) \/ Abandon(d)
         PROVE  IInv'
    BY <1>10, UnwindIInv DEF StepFails, ResultReceived, Abandon
  <1>11. ASSUME NEW d \in Calls, PackagerReturns(d) PROVE IInv'
    BY <1>11 DEF PackagerReturns
  <1>12. ASSUME NEW d \in Calls, CleanupLayout(d) PROVE IInv'
    BY <1>12 DEF CleanupLayout
  <1>13. ASSUME NEW d \in Calls, RestoreEnv(d) PROVE IInv'
    BY <1>13 DEF RestoreEnv
  <1>14. ASSUME NEW d \in Calls, RemoveTempDir(d) PROVE IInv'
    BY <1>14 DEF RemoveTempDir
  <1>15. ASSUME NEW d \in Calls, UnlockDockerConfig(d) PROVE IInv'
    BY <1>15 DEF UnlockDockerConfig
  <1>16. CASE UNCHANGED vars
    BY <1>16 DEF vars
  <1> QED
    BY <1>1, <1>2, <1>3, <1>4, <1>5, <1>6, <1>7, <1>8, <1>9, <1>9a, <1>10, <1>11, <1>12,
       <1>13, <1>14, <1>15, <1>16 DEF Next, Step

(* The inductive invariant holds for any set of calls. *)
THEOREM Invariant == Spec => []IInv
  BY InitIInv, NextIInv, PTL DEF Spec

(* Every variable keeps its type. *)
THEOREM TypeCorrect == Spec => []TypeOK
  <1>1. IInv => TypeOK
    BY DEF IInv
  <1> QED BY <1>1, Invariant, PTL

(* DOCKER_CONFIG never names a directory that is gone, half written or     *)
(* another call's: whoever it names holds dockerConfigMu.                  *)
THEOREM NeverDangling == Spec => []NoDanglingConfig
  <1>1. IInv => NoDanglingConfig
    <2> SUFFICES ASSUME IInv, env \in Calls
                 PROVE  dir[env] = "config" /\ mu = env
      BY DEF NoDanglingConfig
    <2>1. PICK d \in Calls : mu = d /\ Holding(d)
      <3>1. mu # None
        BY DEF IInv, EnvInv, TypeOK, ProcessValues
      <3> QED BY <3>1 DEF IInv, TypeOK, MutexInv
    <2>2. env = d /\ pc[d] \in Installed
      BY <2>1 DEF IInv, TypeOK, EnvInv, ProcessValues
    <2> QED BY <2>1, <2>2 DEF IInv, DirInv, Installed
  <1> QED BY <1>1, Invariant, PTL

(* A call with credentials loads and deploys under its own. *)
THEOREM LoadsWithOwnCredentials == Spec => []OwnCredentials
  <1>1. IInv => OwnCredentials
    BY DEF IInv, EnvInv, Holding, Installed, OwnCredentials
  <1> QED BY <1>1, Invariant, PTL

(* Whenever no call holds the mutex, the environment is as it was at the   *)
(* start and no credentials are on disk.                                   *)
THEOREM AlwaysRestored == Spec => []RestoredWhenFree
  <1>1. IInv => RestoredWhenFree
    BY DEF IInv, MutexInv, EnvInv, DirInv, Holding, RestoredWhenFree
  <1> QED BY <1>1, Invariant, PTL

----------------------------------------------------------------------------
(* The refinement. *)

Waiting == {d \in Calls : pc[d] \in {"lock"} \cup Installing}

LEMMA LeaseInit == Init => Lease!Init
  BY DEF Init, Lease!Init

(* A step that leaves DOCKER_CONFIG and the waiting calls alone. *)
LEMMA LeaseStutter ==
  ASSUME env' = env, outside' = outside, Waiting' = Waiting
  PROVE  UNCHANGED Lease!vars
  BY DEF Lease!vars, Waiting, Installing

LEMMA LeaseStep == IInv /\ [Next]_vars => [Lease!Next]_(Lease!vars)
  <1> SUFFICES ASSUME IInv, [Next]_vars PROVE Lease!Next \/ UNCHANGED Lease!vars
    OBVIOUS
  <1> USE DEF inputVars, dockerVars, From, Goto
  <1>a. pc \in [Calls -> CallStates]
    BY DEF IInv, TypeOK
  <1>1. ASSUME NEW d \in Calls, Deploy(d) PROVE Lease!Next \/ UNCHANGED Lease!vars
    <2>1. CASE pc'[d] = "lock"
      <3>1. Waiting' = Waiting \cup {d} /\ d \notin Waiting
        BY <1>a, <1>1, <2>1 DEF Deploy, Waiting, Installing
      <3>2. env # d
        BY <1>1 DEF IInv, TypeOK, MutexInv, EnvInv, Holding, Deploy, ProcessValues
      <3>3. Lease!Request(d)
        BY <1>1, <3>1, <3>2 DEF Deploy, Lease!Request, Waiting, Installing
      <3> QED BY <3>3 DEF Lease!Next
    <2>2. CASE pc'[d] # "lock"
      <3>1. Waiting' = Waiting
        BY <1>a, <1>1, <2>2 DEF Deploy, Waiting, Installing
      <3> QED BY <1>1, <3>1, LeaseStutter DEF Deploy
    <2> QED BY <2>1, <2>2
  <1>2. ASSUME NEW d \in Calls, Setenv(d) PROVE Lease!Next
    <2>1. Waiting' = Waiting \ {d} /\ d \in Waiting
      BY <1>a, <1>2 DEF Setenv, Waiting, Installing
    <2>2. env = outside
      BY <1>2 DEF IInv, CredsInv, EnvInv, Holding, Installing, Installed, Setenv
    <2>3. Lease!Grant(d)
      BY <1>2, <2>1, <2>2 DEF Setenv, Lease!Grant, Waiting, Installing
    <2> QED BY <2>3 DEF Lease!Next
  <1>3. ASSUME NEW d \in Calls, InstallFails(d) PROVE Lease!Next
    <2>1. Waiting' = Waiting \ {d} /\ d \in Waiting
      BY <1>a, <1>3 DEF InstallFails, Waiting, Installing
    <2>2. Lease!GiveUp(d)
      BY <1>3, <2>1 DEF InstallFails, Lease!GiveUp, Waiting, Installing
    <2> QED BY <2>2 DEF Lease!Next
  <1>4. ASSUME NEW d \in Calls, RestoreEnv(d) PROVE Lease!Next
    <2>1. Waiting' = Waiting
      BY <1>a, <1>4 DEF RestoreEnv, Waiting, Installing
    <2>2. env = d /\ prev[d] = outside
      BY <1>4 DEF IInv, CredsInv, EnvInv, Holding, Installing, Installed, RestoreEnv
    <2>3. Lease!Release(d)
      BY <1>4, <2>1, <2>2 DEF RestoreEnv, Lease!Release, Waiting, Installing
    <2> QED BY <2>3 DEF Lease!Next
  <1>5. ASSUME NEW d \in Calls,
               \/ Lock(d) \/ MkdirTemp(d) \/ WriteFile(d)
               \/ RemoveTempDir(d) \/ UnlockDockerConfig(d)
               \/ ContextDone(d) \/ PackagerReturns(d)
        PROVE  UNCHANGED Lease!vars
    <2>1. Waiting' = Waiting
      BY <1>a, <1>5 DEF Waiting, Installing, Lock, MkdirTemp, WriteFile, RemoveTempDir,
             UnlockDockerConfig, ContextDone, PackagerReturns
    <2> QED
      BY <1>5, <2>1, LeaseStutter DEF Lock, MkdirTemp, WriteFile, RemoveTempDir,
             UnlockDockerConfig, ContextDone, PackagerReturns
  <1>6. ASSUME NEW d \in Calls,
               \/ ensureInClusterConfig(d) \/ LoadPackage(d) \/ StepFails(d)
               \/ ensureClusterConnectivity(d) \/ executePackageDeployment(d)
               \/ ResultReceived(d) \/ Abandon(d) \/ CleanupLayout(d)
        PROVE  UNCHANGED Lease!vars
    <2>1. Waiting' = Waiting
      BY <1>a, <1>6 DEF Waiting, Installing, Unwind, ensureInClusterConfig, LoadPackage,
             StepFails, ensureClusterConnectivity, executePackageDeployment,
             ResultReceived, Abandon, CleanupLayout
    <2> QED
      BY <1>6, <2>1, LeaseStutter DEF ensureInClusterConfig, LoadPackage,
             StepFails, ensureClusterConnectivity, executePackageDeployment,
             ResultReceived, Abandon, CleanupLayout
  <1>7. CASE UNCHANGED vars
    <2>1. Waiting' = Waiting
      BY <1>7 DEF vars, Waiting
    <2> QED BY <1>7, <2>1, LeaseStutter DEF vars
  <1> QED BY <1>1, <1>2, <1>3, <1>4, <1>5, <1>6, <1>7 DEF Next, Step

(* installDockerConfig implements the lease, fairness apart. *)
THEOREM ImplementsLease == Spec => Lease!SafeSpec
  BY LeaseInit, LeaseStep, Invariant, PTL DEF Spec, Lease!SafeSpec

============================================================================
