---------------------------- MODULE ZarfPackage ----------------------------
(***************************************************************************)
(* The life of one ZarfPackage resource, from the moment somebody applies  *)
(* it until its finalizer is removed, under                                *)
(* internal/controller/zarfpackage/zarfpackage.go.                         *)
(*                                                                         *)
(* Four kinds of actor share the state:                                    *)
(*   - the user, who creates, edits and deletes the resource;              *)
(*   - the reconcile worker of Crossplane's managed reconciler, which      *)
(*     works on an in-memory copy of the resource and calls Observe,       *)
(*     Create, Update and Delete (one pass at a time for one resource);    *)
(*   - the background deployment goroutines those methods launch, which    *)
(*     outlive the pass and write their result into the status;            *)
(*   - packager.Deploy, which client.Deploy runs in a goroutine of its     *)
(*     own and which may go on after its context was cancelled.            *)
(*                                                                         *)
(* Status fields the code writes and never reads (phase, messages,         *)
(* conditions, lastDeployTime) are left out.                               *)
(***************************************************************************)
EXTENDS Naturals

CONSTANTS
    Specs,                  \* values of spec.forProvider
    Names,                  \* package names, and the resource's own name
    Hashes,                 \* fingerprints of specs
    extractPackageName,     \* the package name in the source of a spec
    computeSpecHash,        \* the hash of a spec
    ResourceName,           \* metadata.name, the initial external name
    Deployments,            \* slots for deployment goroutines
    MaxUID,                 \* how often the resource may be created
    MaxConsecutiveFailures, \* 5 in the code
    None

UIDs == 1..MaxUID

Creation  == {"none", "pending", "succeeded", "failed"}
Failures  == {"none", "recent", "old"}

(* What the controller reads of a resource: its metadata, the latest of    *)
(* the three external-create annotations, spec.forProvider and the status  *)
(* fields that steer it. lastFailure says how lastFailureTime relates to   *)
(* now: absent, less than circuitBreakerTimeout ago, or longer ago.        *)
Resource == [uid : UIDs, deleting : BOOLEAN, finalizer : BOOLEAN,
             extName : Names, created : Creation, spec : Specs,
             hash : Hashes \cup {None}, failures : 0..MaxConsecutiveFailures,
             breaker : BOOLEAN, lastFailure : Failures]

GoroutineStates == {"free", "launched", "loading", "executing",
                    "succeeded", "failed", "unwinding"}

Goroutine == [pc : GoroutineStates, uid : UIDs \cup {None},
              spec : Specs \cup {None}, cancelled : BOOLEAN]

PassStates == {"idle", "observe", "create", "creating", "created",
               "createFailed", "update", "relaunch", "delete", "remove",
               "finalize", "assumeRemoved", "uptodate", "status"}

ASSUME ConstantsAssumption ==
    /\ extractPackageName \in [Specs -> Names]
    /\ computeSpecHash \in [Specs -> Hashes]
    /\ ResourceName \in Names
    /\ MaxUID \in Nat \ {0}
    /\ MaxConsecutiveFailures \in Nat \ {0}

ASSUME NoneAssumption ==
    /\ None \notin Specs \cup Hashes \cup UIDs \cup Deployments
    /\ None \notin Resource

VARIABLES
    api,       \* the stored resource, None when there is none
    lastUID,   \* how many times it was created
    pc,        \* where the reconcile worker's pass is
    cr,        \* the pass's in-memory copy of the resource
    fresh,     \* its resourceVersion is still the stored one
    tracker,   \* globalDeploymentTracker.deployments
    deploy,    \* the background deployment goroutines
    packager,  \* packager.Deploy inside each of them
    content    \* for each deployed-package secret, the spec deployed last

vars == <<api, lastUID, pc, cr, fresh, tracker, deploy, packager, content>>

----------------------------------------------------------------------------
(* Reading a resource. *)

getPackageName(c) == extractPackageName[c.spec]

IsInstalled(name) == content[name] # None

coolingDown(c) == c.breaker /\ c.lastFailure = "recent"

(* Changing a status. *)

resetForgettingBreaker(c) == [c EXCEPT !.failures = 0, !.lastFailure = "none"]

resetCircuitBreakerState(c) ==
    [c EXCEPT !.failures = 0, !.breaker = FALSE, !.lastFailure = "none"]

CountWithoutCap(c) ==
    [c EXCEPT !.failures = @ + 1, !.lastFailure = "recent",
              !.breaker = @ \/ c.failures + 1 >= MaxConsecutiveFailures]

applyDeploymentFailureStatus(c) ==
    LET tripped == c.failures + 1 >= MaxConsecutiveFailures
    IN  [c EXCEPT !.failures = IF tripped THEN MaxConsecutiveFailures ELSE @ + 1,
                  !.breaker = @ \/ tripped,
                  !.lastFailure = "recent"]

applyDeploymentSuccessStatus(c, h) ==
    [resetCircuitBreakerState(c) EXCEPT !.hash = h]

Slot(c) == [pc |-> "launched", uid |-> c.uid, spec |-> c.spec, cancelled |-> FALSE]

FreeSlot == [pc |-> "free", uid |-> None, spec |-> None, cancelled |-> FALSE]

NewResource(uid, s) ==
    [uid |-> uid, deleting |-> FALSE, finalizer |-> FALSE,
     extName |-> ResourceName, created |-> "none", spec |-> s,
     hash |-> None, failures |-> 0, breaker |-> FALSE, lastFailure |-> "none"]

----------------------------------------------------------------------------
(* The cluster may hold the packages already: the provider adopts them.    *)
Init ==
    /\ api = None
    /\ lastUID = 0
    /\ pc = "idle"
    /\ cr = None
    /\ fresh = FALSE
    /\ tracker = [u \in UIDs |-> None]
    /\ deploy = [d \in Deployments |-> FreeSlot]
    /\ packager = [d \in Deployments |-> "off"]
    /\ content \in {f \in [Names -> Specs \cup {None}] :
                      \A n \in Names : f[n] # None => extractPackageName[f[n]] = n}

----------------------------------------------------------------------------
(* The user. Every write of somebody else makes the pass's copy stale.     *)

CreateResource ==
    /\ api = None
    /\ lastUID < MaxUID
    /\ lastUID' = lastUID + 1
    /\ \E s \in Specs : api' = NewResource(lastUID + 1, s)
    /\ fresh' = FALSE
    /\ UNCHANGED <<pc, cr, tracker, deploy, packager, content>>

EditSpec ==
    /\ api # None
    /\ \E s \in Specs \ {api.spec} : api' = [api EXCEPT !.spec = s]
    /\ fresh' = FALSE
    /\ UNCHANGED <<lastUID, pc, cr, tracker, deploy, packager, content>>

DeleteResource ==
    /\ api # None
    /\ ~api.deleting
    /\ api' = IF api.finalizer THEN [api EXCEPT !.deleting = TRUE] ELSE None
    /\ fresh' = FALSE
    /\ UNCHANGED <<lastUID, pc, cr, tracker, deploy, packager, content>>

(* Half an hour passes: no failure is recent any more. *)
Aged(c) == IF c # None /\ c.lastFailure = "recent"
           THEN [c EXCEPT !.lastFailure = "old"] ELSE c

CooldownElapses ==
    /\ api' = Aged(api)
    /\ cr' = Aged(cr)
    /\ <<api, cr>>' # <<api, cr>>
    /\ UNCHANGED <<lastUID, pc, fresh, tracker, deploy, packager, content>>

----------------------------------------------------------------------------
(* The managed reconciler's pass: read, Observe, act, write the status.    *)

Goto(l) == pc' = l /\ UNCHANGED <<cr, fresh>>

EndPass == pc' = "idle" /\ cr' = None /\ fresh' = FALSE

BeginPassAfterAnything ==
    /\ pc = "idle"
    /\ api # None
    /\ pc' = "observe"
    /\ cr' = api
    /\ fresh' = TRUE
    /\ UNCHANGED <<api, lastUID, tracker, deploy, packager, content>>

(* After an interrupted creation (the pending annotation is the latest)    *)
(* the reconciler refuses to go on, so such a resource begins no pass.     *)
BeginPass ==
    /\ pc = "idle"
    /\ api # None
    /\ api.created # "pending"
    /\ pc' = "observe"
    /\ cr' = api
    /\ fresh' = TRUE
    /\ UNCHANGED <<api, lastUID, tracker, deploy, packager, content>>

(* Connect: tracking the usage of the ProviderConfig or reading it fails.  *)
ConnectFails ==
    /\ pc = "observe"
    /\ EndPass
    /\ UNCHANGED <<api, lastUID, tracker, deploy, packager, content>>

Observed(c, l) == [cr |-> c, pc |-> l]

handleNotInstalledForgetful(c) == Observed(c, "create")

handleNotInstalledTrusting(c) ==
    Observed(c, IF c.created = "succeeded" THEN "uptodate" ELSE "create")

handleNotInstalled(c) ==
    Observed(c, IF c.created = "succeeded" THEN "update" ELSE "create")

handleInstalledInitialisingHash(c) ==
    IF c.hash \in {None, computeSpecHash[c.spec]}
    THEN Observed([resetCircuitBreakerState(c) EXCEPT
                     !.hash = computeSpecHash[c.spec]], "uptodate")
    ELSE Observed(c, "update")

(* An empty hash waits for the background deployment; a different one is   *)
(* drift. Both answer ResourceUpToDate=false.                              *)
handleInstalled(c) ==
    IF c.hash # computeSpecHash[c.spec]
    THEN Observed(c, "update")
    ELSE Observed(resetCircuitBreakerState(c), "uptodate")

observeInstallation(c) ==
    LET named == [c EXCEPT !.extName = getPackageName(c)]
    IN  IF IsInstalled(getPackageName(c))
        THEN handleInstalled(named)
        ELSE handleNotInstalled(named)

(* The breaker's cooldown is checked before the cluster is contacted; when *)
(* it has elapsed the breaker is reset in the copy.                        *)
Resumed(c) == IF c.breaker THEN resetCircuitBreakerState(c) ELSE c

ObserveIgnoringBreaker(c) == observeInstallation(Resumed(c))

Observe(c) ==
    IF coolingDown(c) THEN Observed(c, "uptodate")
    ELSE observeInstallation(Resumed(c))

ObservePass ==
    /\ pc = "observe"
    /\ ~cr.deleting
    /\ cr' = Observe(cr).cr
    /\ pc' = Observe(cr).pc
    /\ UNCHANGED <<api, lastUID, fresh, tracker, deploy, packager, content>>

(* IsInstalled fails: the reconciler only writes the copy's status.        *)
ObserveFails ==
    /\ pc = "observe"
    /\ ~cr.deleting
    /\ ~coolingDown(cr)
    /\ pc' = "status"
    /\ cr' = Resumed(cr)
    /\ UNCHANGED <<api, lastUID, fresh, tracker, deploy, packager, content>>

observeDeletionByAnnotation(c) ==
    IF c.created = "succeeded" THEN "delete" ELSE "finalize"

observeDeletion(c) ==
    IF IsInstalled(getPackageName(c)) THEN "delete" ELSE "finalize"

ObserveDeletionPass ==
    /\ pc = "observe"
    /\ cr.deleting
    /\ Goto(observeDeletion(cr))
    /\ UNCHANGED <<api, lastUID, tracker, deploy, packager, content>>

(* "Error checking if package exists during deletion, assuming removed".   *)
ObserveDeletionFails ==
    /\ pc = "observe"
    /\ cr.deleting
    /\ Goto("assumeRemoved")
    /\ UNCHANGED <<api, lastUID, tracker, deploy, packager, content>>

(* A full update of the resource: it persists annotations and drops the    *)
(* copy's status, and fails on a stale copy. Only the first pass needs it. *)
AddFinalizer ==
    /\ pc \in {"create", "update", "uptodate"}
    /\ ~cr.finalizer
    /\ IF fresh
       THEN /\ api' = [api EXCEPT !.finalizer = TRUE, !.extName = cr.extName]
            /\ cr' = api'
            /\ UNCHANGED <<pc, fresh>>
       ELSE EndPass /\ UNCHANGED api
    /\ UNCHANGED <<lastUID, tracker, deploy, packager, content>>

StatusWritten(old, new) ==
    [old EXCEPT !.hash = new.hash, !.failures = new.failures,
                !.breaker = new.breaker, !.lastFailure = new.lastFailure]

(* Status().Update at the end of a pass: a stale copy is a conflict, and   *)
(* annotations are not written.                                            *)
WriteStatus ==
    /\ pc = "status" \/ (pc = "uptodate" /\ cr.finalizer)
    /\ api' = IF fresh THEN StatusWritten(api, cr) ELSE api
    /\ EndPass
    /\ UNCHANGED <<lastUID, tracker, deploy, packager, content>>

(* A stale copy is a conflict; the grace period after a creation in which  *)
(* the reconciler waits before it believes the absence only delays this.   *)
RemoveFinalizer ==
    /\ pc \in {"finalize", "assumeRemoved"}
    /\ api' = IF fresh THEN None ELSE api
    /\ EndPass
    /\ UNCHANGED <<lastUID, tracker, deploy, packager, content>>

----------------------------------------------------------------------------
(* deploymentTracker: one cancel function for each UID. *)

track(d) == tracker' = [tracker EXCEPT ![deploy[d].uid] = d]

(* Whichever deployment is tracked under the UID is forgotten. *)
untrack(d) == tracker' = [tracker EXCEPT ![deploy[d].uid] = None]

cancel(u) ==
    /\ tracker' = [tracker EXCEPT ![u] = None]
    /\ deploy' = IF tracker[u] # None
                 THEN [deploy EXCEPT ![tracker[u]].cancelled = TRUE]
                 ELSE deploy

(* A slot whose packager still runs is not reused. When no slot is free    *)
(* the pass waits: the number of slots bounds the goroutines alive.        *)
IsFree(d) == deploy[d].pc = "free" /\ packager[d] = "off"

launchDeploymentGoroutine(d) ==
    /\ IsFree(d)
    /\ deploy' = [deploy EXCEPT ![d] = Slot(cr)]

----------------------------------------------------------------------------
(* Create. *)

(* SetExternalCreatePending and a full update: on success the copy is what *)
(* the API server returned, so what Observe wrote to its status is gone.   *)
SetCreatePending ==
    /\ pc = "create"
    /\ cr.finalizer
    /\ IF fresh
       THEN /\ api' = [api EXCEPT !.created = "pending", !.extName = cr.extName]
            /\ cr' = api'
            /\ pc' = "creating"
            /\ UNCHANGED fresh
       ELSE EndPass /\ UNCHANGED api
    /\ UNCHANGED <<lastUID, tracker, deploy, packager, content>>

shouldSkipCreate(c) == IsInstalled(getPackageName(c)) \/ c.deleting

Created(l) ==
    /\ pc' = l
    /\ cr' = [cr EXCEPT !.extName = getPackageName(cr)]
    /\ UNCHANGED <<api, lastUID, fresh, tracker, packager, content>>

CreateSkips ==
    /\ pc = "creating"
    /\ shouldSkipCreate(cr)
    /\ Created("created")
    /\ UNCHANGED deploy

startBackgroundDeployment ==
    /\ pc = "creating"
    /\ ~shouldSkipCreate(cr)
    /\ \E d \in Deployments : launchDeploymentGoroutine(d)
    /\ Created("created")

(* IsInstalled or the registry credentials fail. *)
CreateFails ==
    /\ pc = "creating"
    /\ Goto("createFailed")
    /\ UNCHANGED <<api, lastUID, tracker, deploy, packager, content>>

(* The reconciler writes the annotations to the latest version of the      *)
(* resource; the status it writes next is the one that update returned.    *)
RecordCreate ==
    /\ pc \in {"created", "createFailed"}
    /\ api' = [api EXCEPT !.created = IF pc = "created" THEN "succeeded" ELSE "failed",
                          !.extName = cr.extName]
    /\ EndPass
    /\ UNCHANGED <<lastUID, tracker, deploy, packager, content>>

----------------------------------------------------------------------------
(* Update. *)

UpdateNotNeeded(c) == c.deleting \/ computeSpecHash[c.spec] = c.hash

UpdateWithoutCancelling ==
    /\ pc = "update"
    /\ cr.finalizer
    /\ Goto(IF UpdateNotNeeded(cr) THEN "status" ELSE "relaunch")
    /\ UNCHANGED <<api, lastUID, tracker, deploy, packager, content>>

(* Up to the sleep that follows cancel(). A goroutine that has not called  *)
(* track() yet is missed, and nothing makes one that was cancelled return  *)
(* before the sleep is over.                                               *)
Update ==
    /\ pc = "update"
    /\ cr.finalizer
    /\ IF UpdateNotNeeded(cr)
       THEN Goto("status") /\ UNCHANGED <<tracker, deploy>>
       ELSE Goto("relaunch") /\ cancel(cr.uid)
    /\ UNCHANGED <<api, lastUID, packager, content>>

Relaunch ==
    /\ pc = "relaunch"
    /\ \E d \in Deployments : launchDeploymentGoroutine(d)
    /\ Goto("status")
    /\ UNCHANGED <<api, lastUID, tracker, packager, content>>

(* The registry credentials cannot be resolved: nothing replaces the       *)
(* deployment that was cancelled.                                          *)
RelaunchFails ==
    /\ pc = "relaunch"
    /\ Goto("status")
    /\ UNCHANGED <<api, lastUID, tracker, deploy, packager, content>>

----------------------------------------------------------------------------
(* Delete. *)

(* Up to the sleep that follows cancel(). *)
Delete ==
    /\ pc = "delete"
    /\ cancel(cr.uid)
    /\ Goto("remove")
    /\ UNCHANGED <<api, lastUID, packager, content>>

(* The external name comes first. A package that is not installed, or      *)
(* turns out to be gone, is a successful removal.                          *)
Remove ==
    /\ pc = "remove"
    /\ content' = [content EXCEPT ![cr.extName] = None]
    /\ Goto("status")
    /\ UNCHANGED <<api, lastUID, tracker, deploy, packager>>

RemoveFails ==
    /\ pc = "remove"
    /\ IsInstalled(cr.extName)
    /\ Goto("status")
    /\ UNCHANGED <<api, lastUID, tracker, deploy, packager, content>>

----------------------------------------------------------------------------
(* A background deployment. *)

passVars == <<lastUID, pc, cr>>

At(d, l) == deploy' = [deploy EXCEPT ![d].pc = l]

StartDeploy(d) ==
    /\ deploy[d].pc = "launched"
    /\ track(d)
    /\ At(d, "loading")
    /\ UNCHANGED <<passVars, api, fresh, packager, content>>

(* Validation, credentials, loading the package or reaching the cluster    *)
(* fails, or the deadline passes meanwhile.                                *)
LoadFails(d) ==
    /\ deploy[d].pc = "loading"
    /\ At(d, "failed")
    /\ UNCHANGED <<passVars, api, fresh, tracker, packager, content>>

(* A step before packager.Deploy reports the cancelled context.            *)
LoadCancelled(d) ==
    /\ deploy[d].pc = "loading"
    /\ deploy[d].cancelled
    /\ At(d, "unwinding")
    /\ UNCHANGED <<passVars, api, fresh, tracker, packager, content>>

executePackageDeployment(d) ==
    /\ deploy[d].pc = "loading"
    /\ At(d, "executing")
    /\ packager' = [packager EXCEPT ![d] = "running"]
    /\ UNCHANGED <<passVars, api, fresh, tracker, content>>

(* The first component is deployed and the package's secret is written.    *)
PackagerRecords(d) ==
    /\ packager[d] = "running"
    /\ packager' = [packager EXCEPT ![d] = "recorded"]
    /\ content' = [content EXCEPT ![extractPackageName[deploy[d].spec]] = deploy[d].spec]
    /\ UNCHANGED <<passVars, api, fresh, tracker, deploy>>

Freed(d) == IF deploy[d].pc = "free" THEN [deploy EXCEPT ![d] = FreeSlot] ELSE deploy

(* The result is sent to a buffered channel: it is read if the goroutine   *)
(* still waits, else nobody learns of it.                                  *)
PackagerReturns(d, result) ==
    /\ packager[d] # "off"
    /\ result = "succeeded" => packager[d] = "recorded"
    /\ packager' = [packager EXCEPT ![d] = "off"]
    /\ deploy' = IF deploy[d].pc = "executing"
                 THEN [deploy EXCEPT ![d].pc = result] ELSE Freed(d)
    /\ UNCHANGED <<passVars, api, fresh, tracker, content>>

(* ctx.Done() is chosen, by the deployment's timeout. packager.Deploy was   *)
(* given the context and may go on regardless.                             *)
DeployTimesOut(d) ==
    /\ deploy[d].pc = "executing"
    /\ At(d, "failed")
    /\ UNCHANGED <<passVars, api, fresh, tracker, packager, content>>

(* A cancelled context: handleDeploymentError returns without a write.     *)
DeployCancelled(d) ==
    /\ deploy[d].pc = "executing"
    /\ deploy[d].cancelled
    /\ At(d, "unwinding")
    /\ UNCHANGED <<passVars, api, fresh, tracker, packager, content>>

(* Get by name, mutate and update, retried on a conflict; a resource that  *)
(* is gone is no error.                                                    *)
mutateStatus(new) ==
    IF api = None THEN UNCHANGED <<api, fresh>>
    ELSE api' = new /\ fresh' = FALSE

handleDeploymentError(d) ==
    /\ deploy[d].pc = "failed"
    /\ mutateStatus(applyDeploymentFailureStatus(api))
    /\ At(d, "unwinding")
    /\ UNCHANGED <<passVars, tracker, packager, content>>

handleDeploymentSuccess(d) ==
    /\ deploy[d].pc = "succeeded"
    /\ mutateStatus(applyDeploymentSuccessStatus(api, computeSpecHash[deploy[d].spec]))
    /\ At(d, "unwinding")
    /\ UNCHANGED <<passVars, tracker, packager, content>>

(* The API server fails or the retries are used up: the result is logged.  *)
ResultLost(d) ==
    /\ deploy[d].pc \in {"failed", "succeeded"}
    /\ At(d, "unwinding")
    /\ UNCHANGED <<passVars, api, fresh, tracker, packager, content>>

Returned(d) == IF packager[d] = "off" THEN FreeSlot
               ELSE [deploy[d] EXCEPT !.pc = "free", !.cancelled = FALSE]

ReturnTracked(d) ==
    /\ deploy[d].pc = "unwinding"
    /\ deploy' = [deploy EXCEPT ![d] = Returned(d)]
    /\ UNCHANGED <<passVars, api, fresh, tracker, packager, content>>

(* The deferred untrack() and cancel(). *)
Return(d) ==
    /\ deploy[d].pc = "unwinding"
    /\ untrack(d)
    /\ deploy' = [deploy EXCEPT ![d] = Returned(d)]
    /\ UNCHANGED <<passVars, api, fresh, packager, content>>

----------------------------------------------------------------------------
(* The provider restarts: the pass, the goroutines and the tracker are     *)
(* gone, the API server and the cluster are as they were.                  *)
Crash ==
    /\ EndPass
    /\ tracker' = [u \in UIDs |-> None]
    /\ deploy' = [d \in Deployments |-> FreeSlot]
    /\ packager' = [d \in Deployments |-> "off"]
    /\ UNCHANGED <<api, lastUID, content>>

(* Somebody removes the package behind the provider's back.                *)
RemoveByHand ==
    /\ \E n \in Names : content[n] # None /\ content' = [content EXCEPT ![n] = None]
    /\ UNCHANGED <<passVars, api, fresh, tracker, deploy, packager>>

----------------------------------------------------------------------------
Pass ==
    \/ BeginPass \/ ObservePass \/ ObserveDeletionPass
    \/ AddFinalizer \/ WriteStatus \/ RemoveFinalizer
    \/ SetCreatePending \/ CreateSkips \/ startBackgroundDeployment \/ RecordCreate
    \/ Update \/ Relaunch
    \/ Delete \/ Remove

Background(d) ==
    \/ StartDeploy(d) \/ executePackageDeployment(d)
    \/ LoadCancelled(d) \/ DeployCancelled(d)
    \/ handleDeploymentError(d) \/ handleDeploymentSuccess(d) \/ Return(d)

Packager(d) == PackagerRecords(d) \/ PackagerReturns(d, "succeeded")

(* A deployment that fails in the packager, on its way there or in time.   *)
DeployFault(d) == LoadFails(d) \/ DeployTimesOut(d) \/ PackagerReturns(d, "failed")

System ==
    \/ Pass
    \/ \E d \in Deployments : Background(d) \/ Packager(d) \/ DeployFault(d)

(* Calls that fail, a restart, and what people do meanwhile. *)
Fault ==
    \/ ConnectFails \/ ObserveFails \/ ObserveDeletionFails
    \/ CreateFails \/ RelaunchFails \/ RemoveFails
    \/ \E d \in Deployments : ResultLost(d)
    \/ Crash

User == CreateResource \/ DeleteResource

Disturbance == Fault \/ EditSpec \/ RemoveByHand

Next == System \/ User \/ CooldownElapses \/ Disturbance

Spec == Init /\ [][Next]_vars

----------------------------------------------------------------------------
(* Properties. *)

(* Every variable keeps its type; the pass has a copy exactly while it     *)
(* is under way.                                                           *)
TypeOK ==
    /\ api \in Resource \cup {None}
    /\ lastUID \in 0..MaxUID
    /\ pc \in PassStates
    /\ cr \in Resource \cup {None}
    /\ (cr = None) <=> (pc = "idle")
    /\ fresh \in BOOLEAN
    /\ tracker \in [UIDs -> Deployments \cup {None}]
    /\ deploy \in [Deployments -> Goroutine]
    /\ packager \in [Deployments -> {"off", "running", "recorded"}]
    /\ content \in [Names -> Specs \cup {None}]

(* The circuit breaker is active exactly when the failures have reached    *)
(* the limit, and there is a time to count the cooldown from exactly when  *)
(* there were failures: goroutines, Observe's resets and status updates of *)
(* stale copies together never leave a breaker that cannot be timed out.   *)
Consistent(c) ==
    /\ c.breaker <=> c.failures = MaxConsecutiveFailures
    /\ c.failures > 0 <=> c.lastFailure # "none"

BreakerConsistent ==
    /\ api # None => Consistent(api)
    /\ cr # None => Consistent(cr)

Live == {"loading", "executing", "succeeded", "failed", "unwinding"}

(* What the tracker holds for a UID is a deployment of that UID between    *)
(* its track() and its untrack(): a cancel function is never left behind,  *)
(* whatever cancels, restarts or later deployments come in between.        *)
TrackedIsLive ==
    \A u \in UIDs : tracker[u] # None =>
        deploy[tracker[u]].uid = u /\ deploy[tracker[u]].pc \in Live

(* A stored hash changes only by a deployment that succeeded, and to the   *)
(* hash of what it deployed: no Observe, no status update at the end of a  *)
(* pass and no failure sets or clears it (the regression of release 1.1.2).*)
HashFromSuccess ==
    api # None /\ api' # None /\ api.uid = api'.uid /\ api'.hash # api.hash =>
        \E d \in Deployments :
           /\ deploy[d].pc = "succeeded"
           /\ deploy'[d].pc = "unwinding"
           /\ api'.hash = computeSpecHash[deploy[d].spec]

HashOnlyFromSuccess == [][HashFromSuccess]_vars

Launches(d) == deploy[d].pc = "free" /\ deploy'[d].pc = "launched"

(* A deployment that starts while the stored breaker is cooling down comes *)
(* from a pass that read the resource before the breaker tripped.          *)
LaunchUnlessCooling ==
    \A d \in Deployments : Launches(d) => ~(fresh /\ coolingDown(api))

LaunchRespectsBreaker == [][LaunchUnlessCooling]_vars

(* A resource that was created is never created again: it cannot fall back *)
(* to "pending", where a restart would block it for good.                  *)
StaysCreated ==
    api # None /\ api' # None /\ api.uid = api'.uid /\ api.created = "succeeded" =>
        api'.created = "succeeded"

NeverCreatedAgain == [][StaysCreated]_vars

NothingInstalled == \A n \in Names : ~IsInstalled(n)

(* In an empty cluster a resource that is created once is updated only     *)
(* after its Create has succeeded: a package that handleInstalled finds is *)
(* one that Create launched, whatever restarts, failed calls and removals  *)
(* come in between, so Update's cancel() and Create meet no deployment of  *)
(* each other.                                                             *)
UpdateFollowsCreation ==
    pc = "observe" /\ pc' = "update" => cr.created = "succeeded"

UpdatesOnlyCreated == [][UpdateFollowsCreation]_vars

InUse(d) == deploy[d].pc # "free"

(* Create cancels nothing, so it must find nothing to cancel: in a cluster *)
(* that was empty it never launches a deployment beside another one of the *)
(* same resource, whatever was cut off, retried or removed before.         *)
CreateIsAlone ==
    \A d, e \in Deployments :
        pc = "creating" /\ Launches(d) /\ InUse(e) => deploy[e].uid # cr.uid

CreateLaunchesAlone == [][CreateIsAlone]_vars

(* One goroutine of a resource at most has not returned; once it is live   *)
(* and not cancelled deploymentTracker holds it; and it was cancelled when *)
(* Update is about to launch the next.                                     *)
Orderly ==
    /\ \A d, e \in Deployments :
          d # e /\ InUse(d) /\ InUse(e) => deploy[d].uid # deploy[e].uid
    /\ \A d \in Deployments :
          deploy[d].pc \in Live /\ ~deploy[d].cancelled => tracker[deploy[d].uid] = d
    /\ pc = "relaunch" => \A d \in Deployments :
          InUse(d) /\ deploy[d].uid = cr.uid => deploy[d].cancelled

(* Update's cancel() comes before the track() of a goroutine it is to end. *)
CancelsTooEarly ==
    /\ pc = "update"
    /\ pc' = "relaunch"
    /\ \E d \in Deployments : deploy[d].pc = "launched" /\ deploy[d].uid = cr.uid

(* The sleep is over before the goroutine that was cancelled has returned. *)
RelaunchesTooEarly ==
    /\ pc = "relaunch"
    /\ \E d, e \in Deployments :
          Launches(d) /\ InUse(e) /\ deploy[e].uid = cr.uid /\ deploy[e].cancelled

(* Only these two races make deployments of a resource overlap or take one *)
(* that runs out of the reach of cancel(): restarts, deletions, late       *)
(* results, edits and creations keep them in order at any speed.           *)
KeepsOrder ==
    Orderly /\ ~CancelsTooEarly /\ ~RelaunchesTooEarly => Orderly'

OrderKept == [][KeepsOrder]_vars

(* deploymentTracker lets go of a deployment when it is cancelled or when  *)
(* it completes.                                                           *)
UntrackedIsOver ==
    [][ \A u \in UIDs : tracker[u] # None /\ tracker'[u] = None =>
          deploy'[tracker[u]].cancelled \/ deploy'[tracker[u]].pc = "free" ]_vars

(* Update cancels a deployment only to deploy another spec, never one that *)
(* is installing the spec Update is asked for: the pass that finds the     *)
(* package not there yet must wait for the deployment Create launched.     *)
CancelsOnlyOutdated ==
    [][ \A d \in Deployments :
          pc = "update" /\ ~deploy[d].cancelled /\ deploy'[d].cancelled =>
            computeSpecHash[deploy[d].spec] # computeSpecHash[cr.spec] ]_vars

(* When observeDeletion's answer removes the finalizer of a resource, its  *)
(* deployments that still run have been cancelled by Delete.               *)
DeletionCancels ==
    [][ api # None /\ api.deleting /\ api' = None =>
          \A d \in Deployments :
             deploy[d].uid = api.uid /\ deploy[d].pc \in {"loading", "executing"} =>
               deploy[d].cancelled ]_vars

(* observeDeletion lets the finalizer go only when the package is gone.    *)
FinalizedWhenRemoved ==
    [][ api # None /\ api.deleting /\ api' = None => ~IsInstalled(getPackageName(api)) ]_vars

(* handleDeploymentError counts a failure in the status of the resource    *)
(* the deployment was launched for, not of a later one of that name.       *)
FailuresAreOwn ==
    [][ api # None /\ api' # None /\ api.uid = api'.uid /\ api'.failures > api.failures =>
          \E d \in Deployments :
             /\ deploy[d].uid = api.uid
             /\ deploy[d].pc = "failed"
             /\ deploy'[d].pc = "unwinding" ]_vars

(* handleInstalled, on the stored spec and hash, calls a package up to     *)
(* date only if what was deployed last under its name is that spec, or a   *)
(* deployment is still at work that will say otherwise.                    *)
DriftIsDetected ==
    [][ pc = "observe" /\ pc' = "uptodate" /\ fresh /\ ~coolingDown(cr) =>
          \/ computeSpecHash[content[getPackageName(cr)]] = computeSpecHash[cr.spec]
          \/ \E d \in Deployments : ~IsFree(d) ]_vars

(* Deletion was requested of a resource whose creation no restart cut off. *)
Deleting == api # None /\ api.deleting /\ api.created # "pending"

(* No deletion lasts for ever: Observe, Delete and observeDeletion of later *)
(* passes make up for failed calls, restarts and late deployments. A       *)
(* deletion is never taken back, so this is Deleting ~> (api = None).      *)
DeletionCompletes == []<>~Deleting

(* The desired spec is recorded as applied, or nothing more is to be done. *)
Settled ==
    \/ api = None
    \/ api.deleting
    \/ api.created = "pending"
    \/ api.hash = computeSpecHash[api.spec]

Cancels == \E d \in Deployments : ~deploy[d].cancelled /\ deploy'[d].cancelled

(* A package that is gone is deployed again, or at least an attempt made.  *)
MissingIsRedeployed ==
    (api # None /\ ~IsInstalled(getPackageName(api)))
      ~> (\/ api = None \/ api.deleting \/ api.created = "pending" \/ coolingDown(api)
          \/ IsInstalled(getPackageName(api))
          \/ \E d \in Deployments : deploy[d].pc # "free")

(* A deployment that Delete or its timeout ended deploys nothing once the  *)
(* resource is gone.                                                       *)
NothingDeployedAfterEnd ==
    [][ \A d \in Deployments :
          packager[d] = "running" /\ packager'[d] = "recorded" /\ deploy[d].pc = "free" =>
            api # None ]_vars

----------------------------------------------------------------------------
(* The worker polls and retries for ever, and every goroutine ends: Deploy *)
(* has a deadline, and packager.Deploy bounds its waits by it.             *)
Fairness ==
    /\ WF_vars(Pass)
    /\ \A d \in Deployments :
          WF_vars(Background(d) \/ Packager(d) \/ DeployFault(d))

InTime(d) == deploy[d].pc = "executing"

(* In addition: the cooldown ends, and deployments that are tried again    *)
(* and again, and not cancelled for ever, get through one day.             *)
DeploymentsSucceed ==
    /\ WF_vars(CooldownElapses)
    /\ SF_vars(\E d \in Deployments : executePackageDeployment(d))
    /\ SF_vars(\E d \in Deployments : InTime(d) /\ PackagerRecords(d))
    /\ SF_vars(\E d \in Deployments : InTime(d) /\ PackagerReturns(d, "succeeded"))

(* Once the edits, the restarts and the failed calls have ended, and given *)
(* that deployments which are not cancelled get through, the spec is       *)
(* applied and stays so, unless Update cancels its deployments for ever:   *)
(* later passes make up for the goroutines a restart took along, for lost  *)
(* results, for launches that overlapped and for a breaker that opened.    *)
AppliedUnlessCancelled ==
    DeploymentsSucceed => <>[]Settled \/ []<><<Cancels>>_vars

============================================================================
