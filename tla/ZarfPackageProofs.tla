------------------------- MODULE ZarfPackageProofs -------------------------
(* Theorems about ZarfPackage for every value of its constants: the ones   *)
(* that assume nothing first, then those about the order of deployments    *)
(* and those that need the cluster to be empty.                            *)
EXTENDS ZarfPackageRefinement, TLAPS

(* The strengthening of TypeOK that makes it inductive.                    *)

(* A slot at work knows the resource and the spec it works for.            *)
GoroutineInv ==
    \A d \in Deployments :
        /\ deploy[d].pc # "free" => deploy[d].uid \in UIDs
        /\ deploy[d].pc # "free" \/ packager[d] # "off" => deploy[d].spec \in Specs

(* What a fresh copy has in common with the stored resource.               *)
Agree(c, a) ==
    /\ c.uid = a.uid /\ c.deleting = a.deleting /\ c.finalizer = a.finalizer
    /\ c.created = a.created /\ c.spec = a.spec /\ c.hash = a.hash

Creating == {"creating", "created", "createFailed"}

(* What a pass may rely on while others write to the resource.             *)
PassInv ==
    cr # None =>
        /\ fresh => api # None /\ Agree(cr, api)
        /\ fresh /\ pc = "observe" => cr = api
        /\ cr.finalizer => api # None /\ api.finalizer /\ api.uid = cr.uid
        /\ pc = "create" => cr.created # "succeeded"
        /\ pc \in Creating => cr.finalizer /\ api.created = "pending"
        /\ fresh /\ pc \in {"create", "creating", "update", "relaunch"} =>
              ~coolingDown(api)

IInv == TypeOK /\ GoroutineInv /\ PassInv

----------------------------------------------------------------------------
(* The operators on statuses keep the type and say what they change.       *)

(* The three fields of the breaker may take any values of their types.     *)
LEMMA BreakerFields ==
    ASSUME NEW c \in Resource, NEW f \in 0..MaxConsecutiveFailures,
           NEW b \in BOOLEAN, NEW l \in Failures
    PROVE  [c EXCEPT !.failures = f, !.breaker = b, !.lastFailure = l] \in Resource
<1> DEFINE x == [c EXCEPT !.failures = f]
           y == [x EXCEPT !.breaker = b]
           z == [y EXCEPT !.lastFailure = l]
<1>1. x \in Resource
  BY DEF Resource
<1>2. y \in Resource
  BY <1>1 DEF Resource
<1>3. z \in Resource
  BY <1>2 DEF Resource
<1>4. z = [c EXCEPT !.failures = f, !.breaker = b, !.lastFailure = l]
  BY DEF Resource
<1>5. QED
  BY <1>3, <1>4

Kept(old, new) ==
    /\ new.uid = old.uid /\ new.deleting = old.deleting
    /\ new.finalizer = old.finalizer /\ new.extName = old.extName
    /\ new.created = old.created /\ new.spec = old.spec

(* resetCircuitBreakerState touches the breaker's fields only.             *)
LEMMA ResetKeeps ==
    ASSUME NEW c \in Resource
    PROVE  /\ resetCircuitBreakerState(c) \in Resource
           /\ Kept(c, resetCircuitBreakerState(c))
           /\ resetCircuitBreakerState(c).hash = c.hash
           /\ Consistent(resetCircuitBreakerState(c))
<1>1. resetCircuitBreakerState(c) \in Resource
  <2>1. 0 \in 0..MaxConsecutiveFailures /\ FALSE \in BOOLEAN /\ "none" \in Failures
    BY ConstantsAssumption DEF Failures
  <2>2. QED
    BY <2>1, BreakerFields DEF resetCircuitBreakerState
<1>2. QED
  BY <1>1, ConstantsAssumption DEF Resource, Kept, resetCircuitBreakerState, Consistent

(* applyDeploymentFailureStatus keeps the breaker consistent.              *)
LEMMA FailureKeeps ==
    ASSUME NEW c \in Resource
    PROVE  /\ applyDeploymentFailureStatus(c) \in Resource
           /\ Kept(c, applyDeploymentFailureStatus(c))
           /\ applyDeploymentFailureStatus(c).hash = c.hash
           /\ Consistent(c) => Consistent(applyDeploymentFailureStatus(c))
<1> DEFINE tripped == c.failures + 1 >= MaxConsecutiveFailures
           f == IF tripped THEN MaxConsecutiveFailures ELSE c.failures + 1
           b == c.breaker \/ tripped
<1>1. f \in 0..MaxConsecutiveFailures /\ b \in BOOLEAN /\ "recent" \in Failures
  BY ConstantsAssumption DEF Resource, Failures
<1>2. applyDeploymentFailureStatus(c)
        = [c EXCEPT !.failures = f, !.breaker = b, !.lastFailure = "recent"]
  BY DEF Resource, applyDeploymentFailureStatus
<1>3. applyDeploymentFailureStatus(c) \in Resource
  <2> HIDE DEF f, b
  <2>1. [c EXCEPT !.failures = f, !.breaker = b, !.lastFailure = "recent"] \in Resource
    BY <1>1, BreakerFields
  <2>2. QED
    BY <1>2, <2>1
<1> DEFINE r == applyDeploymentFailureStatus(c)
<1>4. Kept(c, r) /\ r.hash = c.hash
  BY <1>2 DEF Resource, Kept
<1>5. r.failures = f /\ r.breaker = b /\ r.lastFailure = "recent"
  BY <1>2 DEF Resource
<1>6. Consistent(c) => Consistent(r)
  <2> SUFFICES ASSUME Consistent(c)
               PROVE  /\ r.breaker <=> r.failures = MaxConsecutiveFailures
                      /\ r.failures > 0
    BY <1>5 DEF Consistent
  <2>1. c.failures \in 0..MaxConsecutiveFailures /\ c.breaker \in BOOLEAN
    BY DEF Resource
  <2>2. CASE tripped
    <3>1. f = MaxConsecutiveFailures /\ (b = TRUE)
      BY <2>2
    <3>2. MaxConsecutiveFailures > 0
      BY ConstantsAssumption
    <3>3. QED
      BY <3>1, <3>2, <1>5
  <2>3. CASE ~tripped
    <3>1. c.breaker = FALSE
      BY <2>1, <2>3, ConstantsAssumption DEF Consistent
    <3>2. f = c.failures + 1 /\ f # MaxConsecutiveFailures /\ f > 0
      BY <2>1, <2>3, ConstantsAssumption
    <3>3. b = FALSE
      BY <3>1, <2>3
    <3>4. QED
      BY <3>2, <3>3, <1>5
  <2>4. QED
    BY <2>2, <2>3
<1>7. QED
  BY <1>3, <1>4, <1>6

(* applyDeploymentSuccessStatus sets the hash and resets the breaker.      *)
LEMMA SuccessKeeps ==
    ASSUME NEW c \in Resource, NEW h \in Hashes
    PROVE  /\ applyDeploymentSuccessStatus(c, h) \in Resource
           /\ Kept(c, applyDeploymentSuccessStatus(c, h))
           /\ applyDeploymentSuccessStatus(c, h).hash = h
           /\ Consistent(applyDeploymentSuccessStatus(c, h))
<1> DEFINE r == resetCircuitBreakerState(c)
<1>1. r \in Resource /\ Kept(c, r) /\ Consistent(r)
  BY ResetKeeps
<1>2. applyDeploymentSuccessStatus(c, h) = [r EXCEPT !.hash = h]
  BY DEF applyDeploymentSuccessStatus
<1> HIDE DEF r
<1>3. QED
  BY <1>1, <1>2 DEF Resource, Kept, Consistent

(* Setting the external name touches nothing else.                         *)
LEMMA NameKeeps ==
    ASSUME NEW c \in Resource, NEW n \in Names
    PROVE  /\ [c EXCEPT !.extName = n] \in Resource
           /\ Agree([c EXCEPT !.extName = n], c)
           /\ Consistent(c) => Consistent([c EXCEPT !.extName = n])
BY DEF Resource, Agree, Consistent

(* The name in the source of a resource is a name.                         *)
LEMMA PackageNameType ==
    ASSUME NEW c \in Resource
    PROVE  getPackageName(c) \in Names
BY ConstantsAssumption DEF getPackageName, Resource

(* Observe changes the external name and the breaker of the copy only, and *)
(* asks for a creation or an update only when the breaker lets it.         *)
LEMMA ObserveKeeps ==
    ASSUME NEW c \in Resource
    PROVE  /\ Observe(c).cr \in Resource
           /\ Agree(Observe(c).cr, c)
           /\ Consistent(c) => Consistent(Observe(c).cr)
           /\ Observe(c).pc \in {"create", "update", "uptodate"}
           /\ Observe(c).pc = "create" => c.created # "succeeded"
           /\ Observe(c).pc \in {"create", "update"} => ~coolingDown(c)
<1> DEFINE m == Resumed(c)
           n == [m EXCEPT !.extName = getPackageName(m)]
           r == resetCircuitBreakerState(n)
<1>1. m \in Resource /\ Agree(m, c) /\ (Consistent(c) => Consistent(m))
  BY ResetKeeps DEF Resumed, Agree, Kept
<1> HIDE DEF m
<1>2. n \in Resource /\ Agree(n, m) /\ (Consistent(m) => Consistent(n))
  BY <1>1, NameKeeps, PackageNameType
<1> HIDE DEF n
<1>3. r \in Resource /\ Agree(r, n) /\ Consistent(r)
  BY <1>2, ResetKeeps DEF Agree, Kept
<1> HIDE DEF r
<1>4. CASE coolingDown(c)
  <2>1. Observe(c) = [cr |-> c, pc |-> "uptodate"]
    BY <1>4 DEF Observe, Observed
  <2>2. Observe(c).cr = c /\ Observe(c).pc = "uptodate"
    BY <2>1
  <2>3. QED
    BY <2>2 DEF Agree
<1>5. CASE ~coolingDown(c)
  <2>1. Observe(c) \in {[cr |-> n, pc |-> "update"], [cr |-> n, pc |-> "create"],
                        [cr |-> r, pc |-> "uptodate"]}
    BY <1>5 DEF Observe, Observed, observeInstallation, handleInstalled,
                handleNotInstalled, m, n, r
  <2>2. Observe(c) = [cr |-> n, pc |-> "create"] => n.created # "succeeded"
    <3>1. [cr |-> n, pc |-> "create"] # [cr |-> n, pc |-> "update"]
      OBVIOUS
    <3>2. [cr |-> n, pc |-> "create"] # [cr |-> r, pc |-> "uptodate"]
      OBVIOUS
    <3>3. QED
      BY <1>5, <3>1, <3>2 DEF Observe, Observed, observeInstallation, handleInstalled,
                handleNotInstalled, m, n, r
  <2>3. QED
    BY <1>1, <1>2, <1>3, <1>5, <2>1, <2>2 DEF Agree
<1>6. QED
  BY <1>4, <1>5

(* Assigning fields of a resource, as the steps that write it do.          *)
LEMMA ResourceFields ==
    ASSUME NEW c \in Resource
    PROVE  /\ \A b \in BOOLEAN : [c EXCEPT !.deleting = b] \in Resource
           /\ \A b \in BOOLEAN, n \in Names :
                 [c EXCEPT !.finalizer = b, !.extName = n] \in Resource
           /\ \A k \in Creation, n \in Names :
                 [c EXCEPT !.created = k, !.extName = n] \in Resource
           /\ \A s \in Specs : [c EXCEPT !.spec = s] \in Resource
<1>1. \A b \in BOOLEAN : [c EXCEPT !.deleting = b] \in Resource
  BY DEF Resource
<1>2. \A b \in BOOLEAN, n \in Names :
         [c EXCEPT !.finalizer = b, !.extName = n] \in Resource
  BY DEF Resource
<1>3. \A k \in Creation, n \in Names :
         [c EXCEPT !.created = k, !.extName = n] \in Resource
  BY DEF Resource
<1>4. \A s \in Specs : [c EXCEPT !.spec = s] \in Resource
  BY DEF Resource
<1>5. QED
  BY <1>1, <1>2, <1>3, <1>4

(* What the user creates is a resource.                                    *)
LEMMA NewResourceType ==
    ASSUME NEW u \in UIDs, NEW s \in Specs
    PROVE  NewResource(u, s) \in Resource
<1>1. "none" \in Creation /\ "none" \in Failures /\ 0 \in 0..MaxConsecutiveFailures
      /\ FALSE \in BOOLEAN /\ ResourceName \in Names
  BY ConstantsAssumption DEF Creation, Failures
<1>2. QED
  BY <1>1 DEF NewResource, Resource

(* A status update takes the status of the copy and nothing else.          *)
LEMMA StatusWrittenKeeps ==
    ASSUME NEW a \in Resource, NEW c \in Resource
    PROVE  /\ StatusWritten(a, c) \in Resource
           /\ Kept(a, StatusWritten(a, c))
           /\ StatusWritten(a, c).hash = c.hash
           /\ Consistent(c) => Consistent(StatusWritten(a, c))
BY DEF Resource, StatusWritten, Kept, Consistent

(* After half an hour no breaker is cooling down and nothing else changed.  *)
LEMMA AgedKeeps ==
    ASSUME NEW c \in Resource
    PROVE  /\ Aged(c) \in Resource /\ Aged(c) # None
           /\ Kept(c, Aged(c)) /\ Aged(c).hash = c.hash
           /\ ~coolingDown(Aged(c))
           /\ Consistent(c) => Consistent(Aged(c))
<1>1. CASE c.lastFailure = "recent"
  <2>1. c # None
    BY NoneAssumption
  <2>2. Aged(c) = [c EXCEPT !.lastFailure = "old"]
    BY <1>1, <2>1 DEF Aged
  <2>3. "old" \in Failures
    BY DEF Failures
  <2>4. Aged(c) \in Resource
    BY <2>2, <2>3 DEF Resource
  <2>5. QED
    BY <1>1, <2>2, <2>4, NoneAssumption DEF Resource, Kept, Consistent, coolingDown
<1>2. CASE c.lastFailure # "recent"
  BY <1>2, NoneAssumption DEF Aged, Kept, coolingDown
<1>3. QED
  BY <1>1, <1>2

(* cancel() forgets an entry and marks a goroutine, and moves none.        *)
LEMMA CancelKeeps ==
    ASSUME TypeOK, NEW u \in UIDs, cancel(u)
    PROVE  /\ tracker' \in [UIDs -> Deployments \cup {None}]
           /\ deploy' \in [Deployments -> Goroutine]
           /\ \A d \in Deployments :
                deploy'[d].pc = deploy[d].pc /\ deploy'[d].uid = deploy[d].uid
                /\ deploy'[d].spec = deploy[d].spec
           /\ \A v \in UIDs : tracker'[v] # None => tracker'[v] = tracker[v]
<1>1. tracker' \in [UIDs -> Deployments \cup {None}]
      /\ \A v \in UIDs : tracker'[v] # None => tracker'[v] = tracker[v]
  BY DEF TypeOK, cancel
<1>2. \A g \in Goroutine, b \in BOOLEAN : [g EXCEPT !.cancelled = b] \in Goroutine
  BY DEF Goroutine
<1>3. CASE tracker[u] = None
  BY <1>1, <1>3 DEF TypeOK, cancel
<1>4. CASE tracker[u] # None
  <2> DEFINE e == tracker[u]
  <2>1. e \in Deployments /\ deploy[e] \in Goroutine
    BY <1>4 DEF TypeOK
  <2>2. [deploy[e] EXCEPT !.cancelled = TRUE] \in Goroutine
    BY <1>2, <2>1
  <2>3. deploy' = [deploy EXCEPT ![e] = [deploy[e] EXCEPT !.cancelled = TRUE]]
    BY <1>4 DEF cancel
  <2> HIDE DEF e
  <2>4. deploy' \in [Deployments -> Goroutine]
    BY <2>1, <2>2, <2>3 DEF TypeOK
  <2>5. \A d \in Deployments :
           deploy'[d].pc = deploy[d].pc /\ deploy'[d].uid = deploy[d].uid
           /\ deploy'[d].spec = deploy[d].spec
    BY <2>1, <2>3 DEF TypeOK, Goroutine
  <2>6. QED
    BY <1>1, <2>4, <2>5
<1>5. QED
  BY <1>3, <1>4

(* A launched goroutine works for the resource and the spec of the copy.   *)
LEMMA SlotType ==
    ASSUME NEW c \in Resource
    PROVE  /\ Slot(c) \in Goroutine
           /\ Slot(c).pc = "launched" /\ Slot(c).uid = c.uid /\ Slot(c).spec = c.spec
<1>1. "launched" \in GoroutineStates /\ FALSE \in BOOLEAN
  BY DEF GoroutineStates
<1>2. c.uid \in UIDs /\ c.spec \in Specs
  BY DEF Resource
<1>3. QED
  BY <1>1, <1>2 DEF Slot, Goroutine

(* A slot nobody uses.                                                     *)
LEMMA FreeSlotType == FreeSlot \in Goroutine
<1>1. "free" \in GoroutineStates /\ FALSE \in BOOLEAN
  BY DEF GoroutineStates
<1>2. QED
  BY <1>1 DEF FreeSlot, Goroutine

----------------------------------------------------------------------------
(* IInv is inductive: one step per action.                                 *)

(* Every step keeps the types.                                              *)
LEMMA TypeStep ==
    ASSUME IInv, [Next]_vars
    PROVE  TypeOK'
<1>1. CASE BeginPass
  BY <1>1, NoneAssumption DEF IInv, TypeOK, BeginPass, PassStates
<1>2. CASE ConnectFails
  BY <1>2, NoneAssumption DEF IInv, TypeOK, ConnectFails, EndPass, PassStates
<1>3. CASE ObservePass
  <2>1. cr \in Resource
    BY <1>3 DEF IInv, TypeOK, ObservePass
  <2>2. cr' \in Resource /\ pc' \in PassStates /\ pc' # "idle"
    BY <1>3, <2>1, ObserveKeeps DEF ObservePass, PassStates
  <2>3. QED
    BY <1>3, <2>2, NoneAssumption DEF IInv, TypeOK, ObservePass
<1>4. CASE ObserveFails
  <2>1. cr \in Resource
    BY <1>4 DEF IInv, TypeOK, ObserveFails
  <2>2. cr' \in Resource
    BY <1>4, <2>1, ResetKeeps DEF ObserveFails, Resumed
  <2>3. QED
    BY <1>4, <2>2, NoneAssumption DEF IInv, TypeOK, ObserveFails, PassStates
<1>5. CASE ObserveDeletionPass
  BY <1>5, NoneAssumption DEF IInv, TypeOK, ObserveDeletionPass, Goto,
    observeDeletion, PassStates
<1>6. CASE ObserveDeletionFails
  BY <1>6, NoneAssumption DEF IInv, TypeOK, ObserveDeletionFails, Goto,
    PassStates
<1>7. CASE AddFinalizer
  <2>1. cr \in Resource
    BY <1>7 DEF IInv, TypeOK, AddFinalizer
  <2>2. CASE fresh
    <3>1. api \in Resource
      BY <2>2, <2>1, NoneAssumption DEF IInv, PassInv, TypeOK
    <3>2. TRUE \in BOOLEAN /\ cr.extName \in Names
      BY <2>1 DEF Resource
    <3>3. api' \in Resource
      BY <1>7, <2>2, <3>1, <3>2, ResourceFields DEF AddFinalizer
    <3>4. QED
      BY <1>7, <2>1, <2>2, <3>3, NoneAssumption DEF IInv, TypeOK, AddFinalizer
  <2>3. CASE ~fresh
    BY <1>7, <2>3 DEF IInv, TypeOK, AddFinalizer, EndPass, PassStates
  <2>4. QED
    BY <2>2, <2>3
<1>8. CASE WriteStatus
  <2>1. cr \in Resource
    BY <1>8, NoneAssumption DEF IInv, TypeOK, WriteStatus, PassStates
  <2>2. api' \in Resource \cup {None}
    BY <1>8, <2>1, StatusWrittenKeeps DEF IInv, TypeOK, PassInv, WriteStatus
  <2>3. QED
    BY <1>8, <2>2 DEF IInv, TypeOK, WriteStatus, EndPass, PassStates
<1>9. CASE RemoveFinalizer
  BY <1>9, NoneAssumption DEF IInv, TypeOK, RemoveFinalizer, EndPass,
    PassStates
<1>10. CASE SetCreatePending
  <2>1. cr \in Resource
    BY <1>10 DEF IInv, TypeOK, SetCreatePending
  <2>2. CASE fresh
    <3>1. api \in Resource
      BY <2>2, <2>1, NoneAssumption DEF IInv, PassInv, TypeOK
    <3> DEFINE k == "pending"
    <3>2. k \in Creation /\ cr.extName \in Names
      BY <2>1 DEF Resource, Creation
    <3>3. [api EXCEPT !.created = k, !.extName = cr.extName] \in Resource
      <4> HIDE DEF k
      <4>1. QED
        BY <3>1, <3>2, ResourceFields
    <3>4. QED
      BY <1>10, <2>2, <3>3, NoneAssumption DEF IInv, TypeOK, SetCreatePending,
        PassStates
  <2>3. CASE ~fresh
    BY <1>10, <2>3 DEF IInv, TypeOK, SetCreatePending, EndPass, PassStates
  <2>4. QED
    BY <2>2, <2>3
<1>11. CASE CreateSkips
  <2>1. cr \in Resource
    BY <1>11 DEF IInv, TypeOK, CreateSkips
  <2>2. cr' \in Resource
    BY <1>11, <2>1, NameKeeps, PackageNameType DEF CreateSkips, Created
  <2>3. QED
    BY <1>11, <2>2, NoneAssumption DEF IInv, TypeOK, CreateSkips, Created,
      PassStates
<1>12. CASE startBackgroundDeployment
  <2>1. cr \in Resource
    BY <1>12 DEF IInv, TypeOK, startBackgroundDeployment
  <2>2. cr' \in Resource
    BY <1>12, <2>1, NameKeeps, PackageNameType DEF startBackgroundDeployment,
      Created
  <2>3. deploy' \in [Deployments -> Goroutine]
    BY <1>12, <2>1, SlotType DEF IInv, TypeOK, startBackgroundDeployment,
      launchDeploymentGoroutine
  <2>4. QED
    BY <1>12, <2>2, <2>3, NoneAssumption DEF IInv, TypeOK,
      startBackgroundDeployment, Created, PassStates
<1>13. CASE CreateFails
  BY <1>13, NoneAssumption DEF IInv, TypeOK, CreateFails, Goto, PassStates
<1>14. CASE RecordCreate
  <2>1. cr \in Resource /\ cr # None
    BY <1>14, NoneAssumption DEF IInv, TypeOK, RecordCreate
  <2>2. api \in Resource
    BY <1>14, <2>1 DEF IInv, TypeOK, PassInv, RecordCreate, Creating
  <2> DEFINE k == IF pc = "created" THEN "succeeded" ELSE "failed"
  <2>3. k \in Creation /\ cr.extName \in Names
    BY <2>1 DEF Resource, Creation
  <2>4. api' = [api EXCEPT !.created = k, !.extName = cr.extName]
    BY <1>14 DEF RecordCreate
  <2> HIDE DEF k
  <2>5. api' \in Resource
    BY <2>2, <2>3, <2>4, ResourceFields
  <2>6. QED
    BY <1>14, <2>5 DEF IInv, TypeOK, RecordCreate, EndPass, PassStates
<1>15. CASE Update
  <2>1. cr \in Resource /\ cr.uid \in UIDs
    BY <1>15 DEF IInv, TypeOK, Update, Resource
  <2>2. /\ tracker' \in [UIDs -> Deployments \cup {None}]
        /\ deploy' \in [Deployments -> Goroutine]
    BY <1>15, <2>1, CancelKeeps DEF IInv, TypeOK, Update
  <2>3. QED
    BY <1>15, <2>1, <2>2, NoneAssumption DEF IInv, TypeOK, Update, Goto,
      PassStates
<1>16. CASE Relaunch
  <2>1. cr \in Resource
    BY <1>16 DEF IInv, TypeOK, Relaunch
  <2>2. deploy' \in [Deployments -> Goroutine]
    BY <1>16, <2>1, SlotType DEF IInv, TypeOK, Relaunch,
      launchDeploymentGoroutine
  <2>3. QED
    BY <1>16, <2>1, <2>2, NoneAssumption DEF IInv, TypeOK, Relaunch, Goto,
      PassStates
<1>17. CASE RelaunchFails
  BY <1>17, NoneAssumption DEF IInv, TypeOK, RelaunchFails, Goto, PassStates
<1>18. CASE Delete
  <2>1. cr \in Resource /\ cr.uid \in UIDs
    BY <1>18 DEF IInv, TypeOK, Delete, Resource
  <2>2. /\ tracker' \in [UIDs -> Deployments \cup {None}]
        /\ deploy' \in [Deployments -> Goroutine]
    BY <1>18, <2>1, CancelKeeps DEF IInv, TypeOK, Delete
  <2>3. QED
    BY <1>18, <2>1, <2>2, NoneAssumption DEF IInv, TypeOK, Delete, Goto,
      PassStates
<1>19. CASE Remove
  BY <1>19, NoneAssumption DEF IInv, TypeOK, Remove, Goto, PassStates
<1>20. CASE RemoveFails
  BY <1>20, NoneAssumption DEF IInv, TypeOK, RemoveFails, Goto, PassStates
<1>21. CASE CreateResource
  <2>1. lastUID + 1 \in UIDs
    BY <1>21, ConstantsAssumption DEF IInv, TypeOK, CreateResource, UIDs
  <2>2. api' \in Resource
    BY <1>21, <2>1, NewResourceType DEF CreateResource
  <2>3. lastUID' \in 0..MaxUID
    BY <1>21, ConstantsAssumption DEF IInv, TypeOK, CreateResource
  <2>4. QED
    BY <1>21, <2>2, <2>3 DEF IInv, TypeOK, CreateResource
<1>22. CASE EditSpec
  <2>1. api \in Resource
    BY <1>22 DEF IInv, TypeOK, EditSpec
  <2>2. api' \in Resource
    BY <1>22, <2>1, ResourceFields DEF EditSpec
  <2>3. QED
    BY <1>22, <2>2 DEF IInv, TypeOK, EditSpec
<1>23. CASE DeleteResource
  <2>1. api \in Resource /\ TRUE \in BOOLEAN
    BY <1>23 DEF IInv, TypeOK, DeleteResource
  <2>2. api' \in Resource \cup {None}
    BY <1>23, <2>1, ResourceFields DEF DeleteResource
  <2>3. QED
    BY <1>23, <2>2 DEF IInv, TypeOK, DeleteResource
<1>24. CASE CooldownElapses
  <2>1. api' \in Resource \cup {None}
    BY <1>24, AgedKeeps DEF IInv, TypeOK, CooldownElapses, Aged
  <2>2. cr' \in Resource \cup {None} /\ (cr' = None <=> cr = None)
    BY <1>24, AgedKeeps, NoneAssumption DEF IInv, TypeOK, CooldownElapses, Aged
  <2>3. QED
    BY <1>24, <2>1, <2>2 DEF IInv, TypeOK, CooldownElapses
<1>25. CASE RemoveByHand
  BY <1>25, NoneAssumption DEF IInv, TypeOK, RemoveByHand, passVars
<1>26. CASE Crash
  BY <1>26, FreeSlotType DEF IInv, TypeOK, Crash, EndPass, PassStates
<1>27. ASSUME NEW d \in Deployments, StartDeploy(d)
       PROVE  TypeOK'
  BY <1>27, NoneAssumption DEF IInv, TypeOK, StartDeploy, track, At, passVars,
    Goroutine, GoroutineStates
<1>28. ASSUME NEW d \in Deployments, LoadFails(d)
       PROVE  TypeOK'
  BY <1>28, NoneAssumption DEF IInv, TypeOK, LoadFails, At, passVars,
    Goroutine, GoroutineStates
<1>29. ASSUME NEW d \in Deployments, LoadCancelled(d)
       PROVE  TypeOK'
  BY <1>29, NoneAssumption DEF IInv, TypeOK, LoadCancelled, At, passVars,
    Goroutine, GoroutineStates
<1>30. ASSUME NEW d \in Deployments, executePackageDeployment(d)
       PROVE  TypeOK'
  BY <1>30, NoneAssumption DEF IInv, TypeOK, executePackageDeployment, At,
    passVars, Goroutine, GoroutineStates
<1>31. ASSUME NEW d \in Deployments, PackagerRecords(d)
       PROVE  TypeOK'
  BY <1>31 DEF IInv, TypeOK, GoroutineInv, PackagerRecords, passVars
<1>32. ASSUME NEW d \in Deployments, DeployTimesOut(d)
       PROVE  TypeOK'
  BY <1>32, NoneAssumption DEF IInv, TypeOK, DeployTimesOut, At,
    passVars, Goroutine, GoroutineStates
<1>33. ASSUME NEW d \in Deployments, DeployCancelled(d)
       PROVE  TypeOK'
  BY <1>33, NoneAssumption DEF IInv, TypeOK, DeployCancelled, At,
    passVars, Goroutine, GoroutineStates
<1>34. ASSUME NEW d \in Deployments, handleDeploymentError(d)
       PROVE  TypeOK'
  <2>1. api' \in Resource \cup {None} /\ fresh' \in BOOLEAN
    BY <1>34, FailureKeeps DEF IInv, TypeOK, handleDeploymentError,
      mutateStatus
  <2>2. deploy' \in [Deployments -> Goroutine]
    BY <1>34 DEF IInv, TypeOK, handleDeploymentError, At, Goroutine,
      GoroutineStates
  <2>3. QED
    BY <1>34, <2>1, <2>2 DEF IInv, TypeOK, handleDeploymentError, passVars
<1>35. ASSUME NEW d \in Deployments, handleDeploymentSuccess(d)
       PROVE  TypeOK'
  <2>1. deploy[d].spec \in Specs
    BY <1>35 DEF IInv, GoroutineInv, handleDeploymentSuccess
  <2>2. computeSpecHash[deploy[d].spec] \in Hashes
    BY <2>1, ConstantsAssumption
  <2>3. api' \in Resource \cup {None} /\ fresh' \in BOOLEAN
    BY <1>35, <2>2, SuccessKeeps DEF IInv, TypeOK, handleDeploymentSuccess,
      mutateStatus
  <2>4. deploy' \in [Deployments -> Goroutine]
    BY <1>35 DEF IInv, TypeOK, handleDeploymentSuccess, At, Goroutine,
      GoroutineStates
  <2>5. QED
    BY <1>35, <2>3, <2>4 DEF IInv, TypeOK, handleDeploymentSuccess, passVars
<1>36. ASSUME NEW d \in Deployments, ResultLost(d)
       PROVE  TypeOK'
  BY <1>36, NoneAssumption DEF IInv, TypeOK, ResultLost, At, passVars,
    Goroutine, GoroutineStates
<1>37. ASSUME NEW d \in Deployments, Return(d)
       PROVE  TypeOK'
  <2>1. Returned(d) \in Goroutine
    <3>1. [deploy[d] EXCEPT !.pc = "free"] \in Goroutine
      BY DEF IInv, TypeOK, Goroutine, GoroutineStates
    <3>2. \A g \in Goroutine, b \in BOOLEAN : [g EXCEPT !.cancelled = b] \in Goroutine
      BY DEF Goroutine
    <3>3. [[deploy[d] EXCEPT !.pc = "free"] EXCEPT !.cancelled = FALSE] \in Goroutine
      BY <3>1, <3>2
    <3>4. FreeSlot \in Goroutine
      BY FreeSlotType
    <3>5. Returned(d) \in {FreeSlot, [[deploy[d] EXCEPT !.pc = "free"] EXCEPT !.cancelled = FALSE]}
      BY DEF Returned, IInv, TypeOK, Goroutine
    <3>6. QED
      BY <3>3, <3>4, <3>5
  <2>2. QED
    BY <1>37, <2>1 DEF IInv, TypeOK, Return, untrack, passVars
<1>38. ASSUME NEW d \in Deployments, NEW r \in {"succeeded", "failed"},
             PackagerReturns(d, r)
       PROVE  TypeOK'
  <2>1. Freed(d) \in [Deployments -> Goroutine]
    BY FreeSlotType DEF IInv, TypeOK, Freed
  <2>2. r \in GoroutineStates
    BY DEF GoroutineStates
  <2>3. [deploy EXCEPT ![d].pc = r] \in [Deployments -> Goroutine]
    BY <2>2 DEF IInv, TypeOK, Goroutine
  <2>4. QED
    BY <1>38, <2>1, <2>3 DEF IInv, TypeOK, PackagerReturns, passVars
<1>39. CASE UNCHANGED vars
  BY <1>39 DEF IInv, TypeOK, vars
<1>40. QED
  BY <1>1, <1>2, <1>3, <1>4, <1>5, <1>6, <1>7, <1>8, <1>9, <1>10, <1>11, <1>12,
    <1>13, <1>14, <1>15, <1>16, <1>17, <1>18, <1>19, <1>20, <1>21, <1>22,
    <1>23, <1>24, <1>25, <1>26, <1>27, <1>28, <1>29, <1>30, <1>31, <1>32,
    <1>33, <1>34, <1>35, <1>36, <1>37, <1>38, <1>39 DEF Next, System, Pass,
    Background, Packager, DeployFault, User, Disturbance, Fault

(* Every step leaves each goroutine with the spec it was launched with. *)
LEMMA GoroutineStep ==
    ASSUME IInv, [Next]_vars
    PROVE  GoroutineInv'
<1>1. CASE UNCHANGED <<deploy, packager>>
  BY <1>1 DEF IInv, GoroutineInv
<1>2. ASSUME NEW d \in Deployments, launchDeploymentGoroutine(d), cr \in Resource,
             packager' = packager
      PROVE  GoroutineInv'
  <2>1. deploy' = [deploy EXCEPT ![d] = Slot(cr)]
    BY <1>2 DEF launchDeploymentGoroutine
  <2>2. cr.uid \in UIDs /\ cr.spec \in Specs
    BY <1>2 DEF Resource
  <2>3. QED
    BY <1>2, <2>1, <2>2, SlotType DEF IInv, TypeOK, GoroutineInv
<1>3. CASE startBackgroundDeployment
  BY <1>2, <1>3 DEF IInv, TypeOK, startBackgroundDeployment, Created
<1>4. CASE Relaunch
  BY <1>2, <1>4 DEF IInv, TypeOK, Relaunch
<1>5. ASSUME NEW u \in UIDs, cancel(u), packager' = packager
      PROVE  GoroutineInv'
  BY <1>5, CancelKeeps DEF IInv, GoroutineInv
<1>6. CASE Update
  <2>1. cr.uid \in UIDs
    BY <1>6 DEF IInv, TypeOK, Update, Resource
  <2>2. QED
    BY <1>1, <1>5, <1>6, <2>1 DEF Update
<1>7. CASE Delete
  <2>1. cr.uid \in UIDs
    BY <1>7 DEF IInv, TypeOK, Delete, Resource
  <2>2. QED
    BY <1>5, <1>7, <2>1 DEF Delete
<1>8. CASE Crash
  BY <1>8 DEF Crash, GoroutineInv, FreeSlot
<1>9. ASSUME NEW d \in Deployments, NEW l \in GoroutineStates, At(d, l),
             deploy[d].pc # "free", \A e \in Deployments \ {d} : packager'[e] = packager[e]
      PROVE  GoroutineInv'
  BY <1>9 DEF IInv, TypeOK, GoroutineInv, At, Goroutine
<1>10. ASSUME NEW d \in Deployments,
              \/ StartDeploy(d) \/ LoadFails(d) \/ LoadCancelled(d)
              \/ executePackageDeployment(d) \/ DeployTimesOut(d)
              \/ DeployCancelled(d) \/ handleDeploymentError(d)
              \/ handleDeploymentSuccess(d) \/ ResultLost(d)
       PROVE  GoroutineInv'
  <2>1. \E l \in GoroutineStates : At(d, l)
    BY <1>10 DEF GoroutineStates, StartDeploy, LoadFails, LoadCancelled,
         executePackageDeployment, DeployTimesOut, DeployCancelled,
         handleDeploymentError, handleDeploymentSuccess, ResultLost
  <2>2. /\ deploy[d].pc # "free"
        /\ \A e \in Deployments \ {d} : packager'[e] = packager[e]
    BY <1>10 DEF IInv, TypeOK, StartDeploy, LoadFails, LoadCancelled,
         executePackageDeployment, DeployTimesOut, DeployCancelled,
         handleDeploymentError, handleDeploymentSuccess, ResultLost
  <2>3. QED
    BY <1>9, <2>1, <2>2
<1>11. ASSUME NEW d \in Deployments, PackagerRecords(d)
       PROVE  GoroutineInv'
  BY <1>11 DEF IInv, TypeOK, GoroutineInv, PackagerRecords
<1>12. ASSUME NEW d \in Deployments, NEW r \in {"succeeded", "failed"},
              PackagerReturns(d, r)
       PROVE  GoroutineInv'
  BY <1>12 DEF IInv, TypeOK, GoroutineInv, PackagerReturns, Freed, FreeSlot, Goroutine
<1>13. ASSUME NEW d \in Deployments, Return(d)
       PROVE  GoroutineInv'
  BY <1>13 DEF IInv, TypeOK, GoroutineInv, Return, Returned, FreeSlot, Goroutine
<1>14. CASE UNCHANGED vars
  BY <1>1, <1>14 DEF vars
<1>15. QED
  BY <1>1, <1>3, <1>4, <1>6, <1>7, <1>8, <1>10, <1>11, <1>12, <1>13, <1>14
     DEF Next, System, Pass, Background, Packager, DeployFault, User, Disturbance,
         Fault, BeginPass, ConnectFails, ObservePass, ObserveFails,
         ObserveDeletionPass, ObserveDeletionFails, AddFinalizer, WriteStatus,
         RemoveFinalizer, SetCreatePending, CreateSkips, Created, CreateFails,
         RecordCreate, RelaunchFails, Remove, RemoveFails, CreateResource, EditSpec,
         DeleteResource, CooldownElapses, RemoveByHand

(* Every step leaves the pass with what it relies on. *)
LEMMA PassStep ==
    ASSUME IInv, TypeOK', [Next]_vars
    PROVE  PassInv'
<1>1. CASE UNCHANGED <<api, pc, cr, fresh>>
  BY <1>1 DEF IInv, PassInv, coolingDown
<1>2. CASE cr' = None
  BY <1>2 DEF PassInv
<1>3. CASE BeginPass
  BY <1>3 DEF IInv, TypeOK, PassInv, BeginPass, Agree, Creating
<1>4. CASE ObservePass
  <2>1. cr \in Resource /\ cr # None
    BY <1>4, NoneAssumption DEF IInv, TypeOK, ObservePass
  <2> DEFINE o == Observe(cr)
  <2>2. /\ o.cr \in Resource /\ Agree(o.cr, cr)
        /\ o.pc \in {"create", "update", "uptodate"}
        /\ o.pc = "create" => cr.created # "succeeded"
        /\ o.pc \in {"create", "update"} => ~coolingDown(cr)
    BY <2>1, ObserveKeeps
  <2>3. cr' = o.cr /\ pc' = o.pc /\ api' = api /\ fresh' = fresh /\ pc = "observe"
    BY <1>4 DEF ObservePass
  <2> HIDE DEF o
  <2>4. /\ fresh => api # None /\ cr = api
        /\ cr.finalizer => api # None /\ api.finalizer /\ api.uid = cr.uid
    BY <2>1, <2>3 DEF IInv, PassInv
  <2>5. QED
    BY <2>1, <2>2, <2>3, <2>4 DEF PassInv, Agree, Creating
<1>5. CASE ObserveFails
  <2>1. cr \in Resource
    BY <1>5 DEF IInv, TypeOK, ObserveFails
  <2>2. Agree(Resumed(cr), cr)
    BY <2>1, ResetKeeps DEF Resumed, Agree, Kept
  <2>3. QED
    BY <1>5, <2>1, <2>2, NoneAssumption DEF IInv, PassInv, ObserveFails, Agree, Creating
<1>6. CASE \/ ObserveDeletionPass \/ ObserveDeletionFails \/ CreateFails
           \/ Update \/ Relaunch \/ RelaunchFails \/ Delete \/ Remove \/ RemoveFails
  <2>1. UNCHANGED <<api, cr, fresh>> /\ pc' # "observe" /\ pc' # "create"
    BY <1>6 DEF ObserveDeletionPass, ObserveDeletionFails, observeDeletion, CreateFails,
       Update, Relaunch, RelaunchFails, Delete, Remove, RemoveFails, Goto
  <2>2. /\ pc' \in Creating => pc \in Creating
        /\ pc' = "creating" => pc = "creating"
        /\ pc' \in {"update", "relaunch"} => pc \in {"update", "relaunch"}
    BY <1>6 DEF ObserveDeletionPass, ObserveDeletionFails, observeDeletion, CreateFails,
       Update, Relaunch, RelaunchFails, Delete, Remove, RemoveFails, Goto, Creating
  <2>3. QED
    BY <2>1, <2>2 DEF IInv, PassInv, coolingDown
<1>7. CASE AddFinalizer
  <2>1. CASE fresh
    <3>1. cr \in Resource /\ cr # None /\ ~cr.finalizer
      BY <1>7, NoneAssumption DEF IInv, TypeOK, AddFinalizer
    <3>2. api \in Resource /\ Agree(cr, api)
      BY <2>1, <3>1 DEF IInv, TypeOK, PassInv
    <3>3. pc \in {"create", "update"} => ~coolingDown(api)
      BY <2>1, <3>1 DEF IInv, PassInv
    <3>4. /\ api'.created = api.created /\ api'.uid = api.uid /\ api'.finalizer = TRUE
          /\ api'.breaker = api.breaker /\ api'.lastFailure = api.lastFailure
      BY <1>7, <2>1, <3>2 DEF AddFinalizer, Resource
    <3>5. cr' = api' /\ pc' = pc /\ fresh' = fresh /\ pc \in {"create", "update", "uptodate"}
      BY <1>7, <2>1 DEF AddFinalizer
    <3>6. api' # None
      BY <3>5, NoneAssumption DEF TypeOK, PassStates
    <3>7. pc = "create" => cr.created # "succeeded"
      BY <3>1 DEF IInv, PassInv
    <3>8. QED
      BY <3>2, <3>3, <3>4, <3>5, <3>6, <3>7 DEF PassInv, Agree, Creating, coolingDown
  <2>2. CASE ~fresh
    BY <1>7, <2>2 DEF AddFinalizer, EndPass, PassInv
  <2>3. QED
    BY <2>1, <2>2
<1>8. CASE SetCreatePending
  <2>1. CASE fresh
    <3>1. cr \in Resource /\ cr # None /\ cr.finalizer
      BY <1>8, NoneAssumption DEF IInv, TypeOK, SetCreatePending
    <3>2. api \in Resource /\ Agree(cr, api)
      BY <2>1, <3>1 DEF IInv, TypeOK, PassInv
    <3>3. ~coolingDown(api)
      BY <1>8, <2>1, <3>1 DEF IInv, PassInv, SetCreatePending
    <3>4. /\ api'.created = "pending" /\ api'.uid = api.uid /\ api'.finalizer = api.finalizer
          /\ api'.breaker = api.breaker /\ api'.lastFailure = api.lastFailure
      BY <1>8, <2>1, <3>2 DEF SetCreatePending, Resource
    <3>5. cr' = api' /\ pc' = "creating" /\ fresh' = fresh
      BY <1>8, <2>1 DEF SetCreatePending
    <3>6. api' # None
      BY <3>5, NoneAssumption DEF TypeOK, PassStates
    <3>7. QED
      BY <3>1, <3>2, <3>3, <3>4, <3>5, <3>6 DEF PassInv, Agree, Creating, coolingDown
  <2>2. CASE ~fresh
    BY <1>8, <2>2 DEF SetCreatePending, EndPass, PassInv
  <2>3. QED
    BY <2>1, <2>2
<1>9. CASE \E l \in {"created"} : pc = "creating" /\ Created(l)
  <2>1. /\ UNCHANGED <<api, fresh>> /\ pc = "creating" /\ pc' = "created"
        /\ cr' = [cr EXCEPT !.extName = getPackageName(cr)]
    BY <1>9 DEF Created
  <2>2. cr \in Resource /\ cr # None
    BY <2>1 DEF IInv, TypeOK
  <2>3. Agree(cr', cr)
    BY <2>1, <2>2, NameKeeps, PackageNameType
  <2>4. QED
    BY <2>1, <2>2, <2>3 DEF IInv, PassInv, Agree, Creating
<1>10. CASE CreateResource
  <2>1. cr # None => ~cr.finalizer
    BY <1>10 DEF IInv, PassInv, CreateResource
  <2>2. QED
    BY <1>10, <2>1 DEF IInv, PassInv, CreateResource
<1>11. CASE EditSpec
  <2>1. \E s \in Specs : api' = [api EXCEPT !.spec = s]
    BY <1>11 DEF EditSpec
  <2>2. api \in Resource
    BY <1>11 DEF IInv, TypeOK, EditSpec
  <2>3. api' \in Resource
    BY <2>1, <2>2, ResourceFields
  <2>4. /\ api' # None /\ api'.uid = api.uid /\ api'.finalizer = api.finalizer
        /\ api'.created = api.created
    BY <2>1, <2>2, <2>3, NoneAssumption DEF Resource
  <2>5. QED
    BY <1>11, <2>4 DEF IInv, PassInv, EditSpec, Creating
<1>12. CASE DeleteResource
  <2>1. api \in Resource /\ fresh' = FALSE /\ pc' = pc /\ cr' = cr
    BY <1>12 DEF IInv, TypeOK, DeleteResource
  <2>2. cr # None /\ cr.finalizer => /\ api' # None /\ api'.finalizer
                                     /\ api'.uid = api.uid /\ api'.created = api.created
    <3> SUFFICES ASSUME cr # None, cr.finalizer
                 PROVE  /\ api' # None /\ api'.finalizer
                        /\ api'.uid = api.uid /\ api'.created = api.created
      OBVIOUS
    <3>1. api.finalizer
      BY DEF IInv, PassInv
    <3>2. api' = [api EXCEPT !.deleting = TRUE]
      BY <1>12, <3>1 DEF DeleteResource
    <3>3. api' \in Resource
      BY <2>1, <3>2, ResourceFields
    <3>4. QED
      BY <2>1, <3>1, <3>2, <3>3, NoneAssumption DEF Resource
  <2>3. QED
    BY <2>1, <2>2 DEF IInv, PassInv, Creating
<1>13. CASE CooldownElapses
  <2> SUFFICES ASSUME cr' # None PROVE PassInv'
    BY DEF PassInv
  <2>1. cr \in Resource /\ cr # None
    BY <1>13 DEF IInv, TypeOK, CooldownElapses, Aged
  <2>2. cr' = Aged(cr) /\ Kept(cr, cr') /\ cr'.hash = cr.hash
    BY <1>13, <2>1, AgedKeeps DEF CooldownElapses
  <2>3. CASE api = None
    <3>1. api' = None
      BY <1>13, <2>3 DEF CooldownElapses, Aged
    <3>2. pc' = pc /\ fresh' = fresh
      BY <1>13 DEF CooldownElapses
    <3>3. QED
      BY <2>1, <2>2, <2>3, <3>1, <3>2 DEF IInv, PassInv, Kept, Creating
  <2>4. CASE api # None
    <3>1. api \in Resource
      BY <2>4 DEF IInv, TypeOK
    <3>2. /\ api' = Aged(api) /\ api' # None /\ Kept(api, api') /\ api'.hash = api.hash
          /\ ~coolingDown(api')
      BY <1>13, <3>1, AgedKeeps DEF CooldownElapses
    <3>3. pc' = pc /\ fresh' = fresh
      BY <1>13 DEF CooldownElapses
    <3>4. QED
      BY <2>1, <2>2, <2>4, <3>1, <3>2, <3>3 DEF IInv, PassInv, Kept, Agree, Creating
  <2>5. QED
    BY <2>3, <2>4
<1>14. ASSUME NEW new, mutateStatus(new), UNCHANGED <<pc, cr>>,
             api # None => new \in Resource /\ Kept(api, new)
       PROVE  PassInv'
  <2>1. CASE api = None
    BY <1>14, <2>1 DEF mutateStatus, IInv, PassInv, Creating, TypeOK
  <2>2. CASE api # None
    <3>1. api' = new /\ fresh' = FALSE /\ pc' = pc /\ cr' = cr
      BY <1>14, <2>2 DEF mutateStatus
    <3>2. /\ api' # None /\ api'.uid = api.uid /\ api'.finalizer = api.finalizer
          /\ api'.created = api.created
      BY <1>14, <2>2, <3>1, NoneAssumption DEF Kept
    <3>3. QED
      BY <2>2, <3>1, <3>2 DEF IInv, PassInv, Creating
  <2>3. QED
    BY <2>1, <2>2
<1>15. ASSUME NEW d \in Deployments, handleDeploymentError(d)
       PROVE  PassInv'
  <2>1. UNCHANGED <<pc, cr>> /\ mutateStatus(applyDeploymentFailureStatus(api))
    BY <1>15 DEF handleDeploymentError, passVars
  <2>2. QED
    BY <1>14, <2>1, FailureKeeps DEF IInv, TypeOK
<1>16. ASSUME NEW d \in Deployments, handleDeploymentSuccess(d)
       PROVE  PassInv'
  <2>1. computeSpecHash[deploy[d].spec] \in Hashes
    BY <1>16, ConstantsAssumption DEF IInv, GoroutineInv, handleDeploymentSuccess
  <2> DEFINE new == applyDeploymentSuccessStatus(api, computeSpecHash[deploy[d].spec])
  <2>2. UNCHANGED <<pc, cr>> /\ mutateStatus(new)
    BY <1>16 DEF handleDeploymentSuccess, passVars
  <2>3. api # None => new \in Resource /\ Kept(api, new)
    BY <2>1, SuccessKeeps DEF IInv, TypeOK
  <2> HIDE DEF new
  <2>4. QED
    BY <1>14, <2>2, <2>3
<1>17. CASE UNCHANGED vars
  BY <1>1, <1>17 DEF vars
<1>18. QED
  BY <1>1, <1>2, <1>3, <1>4, <1>5, <1>6, <1>7, <1>8, <1>9, <1>10, <1>11, <1>12,
    <1>13, <1>14, <1>15, <1>16, <1>17 DEF Next, System, Pass, Background,
    Packager, DeployFault, User, Disturbance, Fault, ConnectFails, WriteStatus,
    RemoveFinalizer, RecordCreate, Crash, EndPass, CreateSkips,
    startBackgroundDeployment, RemoveByHand, StartDeploy, LoadFails,
    LoadCancelled, executePackageDeployment, PackagerRecords, PackagerReturns,
    DeployTimesOut, DeployCancelled, ResultLost, Return, passVars

(* The initial states satisfy the inductive invariant.                     *)
LEMMA InitIInv == Init => IInv
<1> SUFFICES ASSUME Init PROVE IInv
  OBVIOUS
<1>1. TypeOK
  <2>1. content \in [Names -> Specs \cup {None}]
    BY DEF Init
  <2>2. deploy \in [Deployments -> Goroutine]
    BY FreeSlotType DEF Init
  <2>3. 0 \in 0..MaxUID /\ "idle" \in PassStates
    BY ConstantsAssumption DEF PassStates
  <2>4. QED
    BY <2>1, <2>2, <2>3 DEF Init, TypeOK
<1>2. GoroutineInv
  BY DEF Init, GoroutineInv, FreeSlot
<1>3. PassInv
  BY DEF Init, PassInv
<1>4. QED
  BY <1>1, <1>2, <1>3 DEF IInv

(* The strengthened invariant holds for ever.                              *)
LEMMA Inductive == Spec => []IInv
<1>1. IInv /\ [Next]_vars => IInv'
  BY TypeStep, GoroutineStep, PassStep DEF IInv
<1>2. QED
  BY InitIInv, <1>1, PTL DEF Spec

(* Every variable of the controller's model keeps its type, for any number
   of goroutines, specs, names and re-creations.                           *)
THEOREM TypeCorrect == Spec => []TypeOK
<1>1. IInv => TypeOK
  BY DEF IInv
<1>2. QED
  BY Inductive, <1>1, PTL

----------------------------------------------------------------------------
(* The properties, from the inductive invariant.                           *)

(* Every step leaves a consistent breaker in the resource and the copy.    *)
LEMMA BreakerStep ==
    ASSUME IInv, BreakerConsistent, [Next]_vars
    PROVE  BreakerConsistent'
<1>1. CASE UNCHANGED <<api, cr>>
  BY <1>1 DEF BreakerConsistent, Consistent
<1>2. CASE UNCHANGED api /\ cr' \in {api, None}
  BY <1>2 DEF BreakerConsistent, Consistent
<1>3. CASE ObservePass
  <2>1. cr \in Resource /\ cr # None
    BY <1>3, NoneAssumption DEF IInv, TypeOK, ObservePass
  <2>2. Consistent(Observe(cr).cr)
    BY <2>1, ObserveKeeps DEF BreakerConsistent
  <2>3. QED
    BY <1>3, <2>2 DEF BreakerConsistent, ObservePass, Consistent
<1>4. CASE ObserveFails
  <2>1. cr \in Resource /\ cr # None
    BY <1>4, NoneAssumption DEF IInv, TypeOK, ObserveFails
  <2>2. Consistent(Resumed(cr))
    BY <2>1, ResetKeeps DEF Resumed, BreakerConsistent
  <2>3. QED
    BY <1>4, <2>2 DEF BreakerConsistent, ObserveFails, Consistent
<1>5. ASSUME NEW c \in Resource, Consistent(c), NEW n, NEW k, NEW b, NEW s
      PROVE  /\ Consistent([c EXCEPT !.finalizer = b, !.extName = n])
             /\ Consistent([c EXCEPT !.created = k, !.extName = n])
             /\ Consistent([c EXCEPT !.extName = n])
             /\ Consistent([c EXCEPT !.deleting = b])
             /\ Consistent([c EXCEPT !.spec = s])
  BY <1>5 DEF Resource, Consistent
<1>6. CASE AddFinalizer \/ SetCreatePending
  <2>1. CASE fresh
    <3>1. api \in Resource /\ Consistent(api)
      BY <1>6, <2>1, NoneAssumption DEF IInv, TypeOK, PassInv, BreakerConsistent,
         AddFinalizer, SetCreatePending
    <3>2. CASE AddFinalizer
      <4>1. api' = [api EXCEPT !.finalizer = TRUE, !.extName = cr.extName] /\ cr' = api'
        BY <2>1, <3>2 DEF AddFinalizer
      <4>2. Consistent(api')
        BY <1>5, <3>1, <4>1
      <4>3. QED
        BY <4>1, <4>2 DEF BreakerConsistent, Consistent
    <3>3. CASE SetCreatePending
      <4>1. api' = [api EXCEPT !.created = "pending", !.extName = cr.extName] /\ cr' = api'
        BY <2>1, <3>3 DEF SetCreatePending
      <4>2. Consistent(api')
        BY <1>5, <3>1, <4>1
      <4>3. QED
        BY <4>1, <4>2 DEF BreakerConsistent, Consistent
    <3>4. QED
      BY <1>6, <3>2, <3>3
  <2>2. CASE ~fresh
    BY <1>6, <2>2 DEF AddFinalizer, SetCreatePending, EndPass, BreakerConsistent, Consistent
  <2>3. QED
    BY <2>1, <2>2
<1>7. CASE WriteStatus
  <2>1. cr \in Resource /\ Consistent(cr)
    BY <1>7, NoneAssumption DEF IInv, TypeOK, WriteStatus, BreakerConsistent, PassStates
  <2>2. api' # None => Consistent(api')
    BY <1>7, <2>1, StatusWrittenKeeps DEF IInv, TypeOK, PassInv, WriteStatus, BreakerConsistent
  <2>3. QED
    BY <1>7, <2>2 DEF WriteStatus, EndPass, BreakerConsistent, Consistent
<1>8. CASE cr' = None /\ api' = None
  BY <1>8 DEF BreakerConsistent
<1>9. CASE CreateSkips \/ startBackgroundDeployment
  <2>1. cr \in Resource /\ cr # None
    BY <1>9, NoneAssumption DEF IInv, TypeOK, CreateSkips, startBackgroundDeployment
  <2>2. cr' = [cr EXCEPT !.extName = getPackageName(cr)] /\ api' = api
    BY <1>9 DEF CreateSkips, startBackgroundDeployment, Created
  <2>3. Consistent(cr')
    BY <1>5, <2>1, <2>2 DEF BreakerConsistent
  <2>4. QED
    BY <2>2, <2>3 DEF BreakerConsistent, Consistent
<1>10. CASE RecordCreate
  <2>1. cr' = None
    BY <1>10 DEF RecordCreate, EndPass
  <2>2. CASE api \in Resource
    <3>1. PICK k : api' = [api EXCEPT !.created = k, !.extName = cr.extName]
      BY <1>10 DEF RecordCreate
    <3>2. Consistent(api')
      BY <1>5, <2>2, <3>1, NoneAssumption DEF BreakerConsistent
    <3>3. QED
      BY <2>1, <3>2 DEF BreakerConsistent, Consistent
  <2>3. CASE api \notin Resource
    <3>1. FALSE
      BY <1>10, <2>3, NoneAssumption DEF IInv, TypeOK, PassInv, RecordCreate, Creating
    <3>2. QED
      BY <3>1
  <2>4. QED
    BY <2>2, <2>3
<1>11. CASE CreateResource
  <2>1. api' # None => Consistent(api')
    BY <1>11, ConstantsAssumption DEF CreateResource, NewResource, Consistent
  <2>2. QED
    BY <1>11, <2>1 DEF CreateResource, BreakerConsistent, Consistent
<1>12. CASE EditSpec
  <2>1. api \in Resource /\ Consistent(api)
    BY <1>12 DEF IInv, TypeOK, EditSpec, BreakerConsistent
  <2>2. Consistent(api')
    BY <1>5, <1>12, <2>1 DEF EditSpec
  <2>3. QED
    BY <1>12, <2>2 DEF EditSpec, BreakerConsistent, Consistent
<1>13. CASE DeleteResource
  <2>1. api \in Resource /\ Consistent(api)
    BY <1>13 DEF IInv, TypeOK, DeleteResource, BreakerConsistent
  <2>2. api' \in {None, [api EXCEPT !.deleting = TRUE]}
    BY <1>13 DEF DeleteResource
  <2>3. api' # None => Consistent(api')
    BY <1>5, <2>1, <2>2
  <2>4. QED
    BY <1>13, <2>3 DEF DeleteResource, BreakerConsistent, Consistent
<1>14. CASE CooldownElapses
  <2>1. api' = Aged(api) /\ cr' = Aged(cr)
    BY <1>14 DEF CooldownElapses
  <2>2. ASSUME NEW c \in Resource \cup {None}, c # None => Consistent(c), Aged(c) # None
        PROVE  Consistent(Aged(c))
    BY <2>2, AgedKeeps, NoneAssumption DEF Aged
  <2>3. (Aged(api) # None => Consistent(Aged(api))) /\ (Aged(cr) # None => Consistent(Aged(cr)))
    BY <2>2 DEF IInv, TypeOK, BreakerConsistent
  <2>4. QED
    BY <2>1, <2>3 DEF BreakerConsistent, Consistent
<1>15. ASSUME NEW new, mutateStatus(new), cr' = cr,
              api # None => Consistent(new)
       PROVE  BreakerConsistent'
  BY <1>15 DEF mutateStatus, BreakerConsistent, Consistent
<1>16. ASSUME NEW d \in Deployments, handleDeploymentError(d)
       PROVE  BreakerConsistent'
  <2>1. mutateStatus(applyDeploymentFailureStatus(api)) /\ cr' = cr
    BY <1>16 DEF handleDeploymentError, passVars
  <2>2. api # None => Consistent(applyDeploymentFailureStatus(api))
    BY FailureKeeps DEF IInv, TypeOK, BreakerConsistent
  <2>3. QED
    BY <1>15, <2>1, <2>2
<1>17. ASSUME NEW d \in Deployments, handleDeploymentSuccess(d)
       PROVE  BreakerConsistent'
  <2> DEFINE h == computeSpecHash[deploy[d].spec]
  <2>1. h \in Hashes
    BY <1>17, ConstantsAssumption DEF IInv, GoroutineInv, handleDeploymentSuccess
  <2>2. mutateStatus(applyDeploymentSuccessStatus(api, h)) /\ cr' = cr
    BY <1>17 DEF handleDeploymentSuccess, passVars
  <2> HIDE DEF h
  <2>3. api # None => Consistent(applyDeploymentSuccessStatus(api, h))
    BY <2>1, SuccessKeeps DEF IInv, TypeOK
  <2>4. QED
    BY <1>15, <2>2, <2>3
<1>18. CASE UNCHANGED vars
  BY <1>1, <1>18 DEF vars
<1>19. QED
  BY <1>1, <1>2, <1>3, <1>4, <1>6, <1>7, <1>8, <1>9, <1>10, <1>11, <1>12, <1>13,
     <1>14, <1>16, <1>17, <1>18
     DEF Next, System, Pass, Background, Packager, DeployFault, User, Disturbance,
         Fault, BeginPass, ConnectFails, ObserveDeletionPass, ObserveDeletionFails,
         RemoveFinalizer, CreateFails, Update, Relaunch, RelaunchFails, Delete, Remove,
         RemoveFails, Goto, EndPass, RemoveByHand, Crash, StartDeploy, LoadFails,
         LoadCancelled, executePackageDeployment, PackagerRecords, PackagerReturns,
         DeployTimesOut, DeployCancelled, ResultLost, Return, passVars

(* The breaker is active exactly at the limit of failures and can always be
   timed out: resetCircuitBreakerState, applyDeployment*Status and the
   status updates of passes keep the three fields together.                *)
THEOREM BreakerIsConsistent == Spec => []BreakerConsistent
<1>1. Init => BreakerConsistent
  BY DEF Init, BreakerConsistent
<1>2. IInv /\ BreakerConsistent /\ [Next]_vars => BreakerConsistent'
  BY BreakerStep
<1>3. QED
  BY Inductive, <1>1, <1>2, PTL DEF Spec

(* Every step leaves only live deployments in the tracker.                 *)
LEMMA TrackedStep ==
    ASSUME IInv, TrackedIsLive, [Next]_vars
    PROVE  TrackedIsLive'
<1>1. CASE UNCHANGED <<tracker, deploy>>
  BY <1>1 DEF TrackedIsLive, Live
<1>2. ASSUME NEW d \in Deployments, launchDeploymentGoroutine(d), tracker' = tracker
      PROVE  TrackedIsLive'
  <2>1. \A u \in UIDs : tracker[u] # d
    BY <1>2, NoneAssumption DEF launchDeploymentGoroutine, IsFree, TrackedIsLive, Live
  <2>2. \A e \in Deployments \ {d} : deploy'[e] = deploy[e]
    BY <1>2 DEF launchDeploymentGoroutine, IInv, TypeOK
  <2>3. QED
    BY <1>2, <2>1, <2>2 DEF TrackedIsLive, Live, IInv, TypeOK
<1>3. CASE startBackgroundDeployment \/ Relaunch
  BY <1>2, <1>3 DEF startBackgroundDeployment, Created, Relaunch
<1>4. ASSUME NEW u \in UIDs, cancel(u)
      PROVE  TrackedIsLive'
  <2>1. /\ \A d \in Deployments :
              deploy'[d].pc = deploy[d].pc /\ deploy'[d].uid = deploy[d].uid
        /\ \A v \in UIDs : tracker'[v] # None => tracker'[v] = tracker[v]
    BY <1>4, CancelKeeps DEF IInv
  <2>2. QED
    BY <2>1 DEF TrackedIsLive, Live, IInv, TypeOK
<1>5. CASE Update
  <2>1. cr.uid \in UIDs
    BY <1>5 DEF IInv, TypeOK, Update, Resource
  <2>2. QED
    BY <1>1, <1>4, <1>5, <2>1 DEF Update
<1>6. CASE Delete
  <2>1. cr.uid \in UIDs
    BY <1>6 DEF IInv, TypeOK, Delete, Resource
  <2>2. QED
    BY <1>4, <1>6, <2>1 DEF Delete
<1>7. CASE Crash
  BY <1>7 DEF Crash, TrackedIsLive
<1>8. ASSUME NEW d \in Deployments, StartDeploy(d)
      PROVE  TrackedIsLive'
  <2>1. deploy[d].uid \in UIDs
    BY <1>8 DEF IInv, GoroutineInv, StartDeploy
  <2>2. \A u \in UIDs : u # deploy[d].uid => tracker'[u] = tracker[u] /\ tracker[u] # d
    BY <1>8, <2>1, NoneAssumption DEF StartDeploy, track, TrackedIsLive, Live, IInv, TypeOK
  <2>3. /\ deploy'[d].pc = "loading" /\ deploy'[d].uid = deploy[d].uid
        /\ \A e \in Deployments \ {d} : deploy'[e] = deploy[e]
    BY <1>8 DEF StartDeploy, At, IInv, TypeOK, Goroutine
  <2>4. tracker'[deploy[d].uid] = d
    BY <1>8, <2>1 DEF StartDeploy, track, IInv, TypeOK
  <2>5. QED
    BY <2>1, <2>2, <2>3, <2>4 DEF TrackedIsLive, Live, IInv, TypeOK
<1>9. ASSUME NEW d \in Deployments, NEW l \in Live, At(d, l), tracker' = tracker
      PROVE  TrackedIsLive'
  <2>1. /\ deploy'[d].pc = l /\ deploy'[d].uid = deploy[d].uid
        /\ \A e \in Deployments \ {d} : deploy'[e] = deploy[e]
    BY <1>9 DEF At, IInv, TypeOK, Goroutine
  <2>2. QED
    BY <1>9, <2>1 DEF TrackedIsLive, IInv, TypeOK
<1>10. ASSUME NEW d \in Deployments,
              \/ LoadFails(d) \/ LoadCancelled(d) \/ executePackageDeployment(d)
              \/ DeployTimesOut(d) \/ DeployCancelled(d) \/ handleDeploymentError(d)
              \/ handleDeploymentSuccess(d) \/ ResultLost(d)
       PROVE  TrackedIsLive'
  <2>1. (\E l \in Live : At(d, l)) /\ tracker' = tracker
    BY <1>10 DEF Live, LoadFails, LoadCancelled, executePackageDeployment,
         DeployTimesOut, DeployCancelled, handleDeploymentError,
         handleDeploymentSuccess, ResultLost
  <2>2. QED
    BY <1>9, <2>1
<1>11. ASSUME NEW d \in Deployments, NEW r \in {"succeeded", "failed"},
              PackagerReturns(d, r)
       PROVE  TrackedIsLive'
  <2>1. CASE deploy[d].pc = "executing"
    BY <1>9, <1>11, <2>1 DEF PackagerReturns, At, Live
  <2>2. CASE deploy[d].pc # "executing"
    <3>1. deploy' = Freed(d) /\ tracker' = tracker
      BY <1>11, <2>2 DEF PackagerReturns
    <3>2. CASE deploy[d].pc # "free"
      BY <1>1, <3>1, <3>2 DEF Freed
    <3>3. CASE deploy[d].pc = "free"
      <4>1. \A u \in UIDs : tracker[u] # d
        BY <3>3, NoneAssumption DEF TrackedIsLive, Live
      <4>2. \A e \in Deployments \ {d} : deploy'[e] = deploy[e]
        BY <3>1, <3>3 DEF Freed, IInv, TypeOK
      <4>3. QED
        BY <3>1, <4>1, <4>2 DEF TrackedIsLive, Live, IInv, TypeOK
    <3>4. QED
      BY <3>2, <3>3
  <2>3. QED
    BY <2>1, <2>2
<1>12. ASSUME NEW d \in Deployments, Return(d)
       PROVE  TrackedIsLive'
  <2>1. deploy[d].uid \in UIDs
    BY <1>12 DEF IInv, GoroutineInv, Return
  <2>2. \A u \in UIDs : u # deploy[d].uid => tracker'[u] = tracker[u] /\ tracker[u] # d
    BY <1>12, <2>1, NoneAssumption DEF Return, untrack, TrackedIsLive, IInv, TypeOK
  <2>3. /\ tracker'[deploy[d].uid] = None
        /\ \A e \in Deployments \ {d} : deploy'[e] = deploy[e]
    BY <1>12, <2>1 DEF Return, untrack, IInv, TypeOK
  <2>4. QED
    BY <2>2, <2>3 DEF TrackedIsLive, Live, IInv, TypeOK
<1>13. CASE UNCHANGED vars
  BY <1>1, <1>13 DEF vars
<1>14. QED
  BY <1>1, <1>3, <1>5, <1>6, <1>7, <1>8, <1>10, <1>11, <1>12, <1>13
     DEF Next, System, Pass, Background, Packager, DeployFault, User, Disturbance,
         Fault, BeginPass, ConnectFails, ObservePass, ObserveFails,
         ObserveDeletionPass, ObserveDeletionFails, AddFinalizer, WriteStatus,
         RemoveFinalizer, SetCreatePending, CreateSkips, Created, CreateFails,
         RecordCreate, RelaunchFails, Remove, RemoveFails, CreateResource, EditSpec,
         DeleteResource, CooldownElapses, RemoveByHand, PackagerRecords

(* deploymentTracker holds no cancel function of a goroutine that ended.   *)
THEOREM TrackerIsLive == Spec => []TrackedIsLive
<1>1. Init => TrackedIsLive
  BY DEF Init, TrackedIsLive
<1>2. IInv /\ TrackedIsLive /\ [Next]_vars => TrackedIsLive'
  BY TrackedStep
<1>3. QED
  BY Inductive, <1>1, <1>2, PTL DEF Spec

----------------------------------------------------------------------------
(* The actions that write to the stored resource.                          *)
LEMMA Writers ==
    ASSUME [Next]_vars, api' # api
    PROVE  \/ CreateResource \/ EditSpec \/ DeleteResource \/ CooldownElapses
           \/ AddFinalizer \/ WriteStatus \/ RemoveFinalizer
           \/ SetCreatePending \/ RecordCreate
           \/ \E d \in Deployments : handleDeploymentError(d) \/ handleDeploymentSuccess(d)
BY DEF vars, Next, System, Pass, Background, Packager, DeployFault, User, Disturbance,
       Fault, BeginPass, ConnectFails, ObservePass, ObserveFails, ObserveDeletionPass,
       ObserveDeletionFails, CreateSkips, startBackgroundDeployment, Created,
       CreateFails, Update, Relaunch, RelaunchFails, Delete, Remove, RemoveFails,
       StartDeploy, LoadFails, LoadCancelled, executePackageDeployment, PackagerRecords,
       PackagerReturns, DeployTimesOut, DeployCancelled, ResultLost, Return, Crash,
       RemoveByHand

(* None of them but a success changes the hash, none but the reconciler's  *)
(* two annotation writes the creation.                                     *)
LEMMA WritesKeep ==
    ASSUME IInv, [Next]_vars, api # None, api' # None, api.uid = api'.uid
    PROVE  /\ \/ api'.hash = api.hash
              \/ \E d \in Deployments : handleDeploymentSuccess(d)
           /\ \/ api'.created = api.created
              \/ SetCreatePending \/ RecordCreate
<1>1. api \in Resource
  BY DEF IInv, TypeOK
<1>2. CASE api' = api
  BY <1>2
<1>3. CASE CreateResource \/ RemoveFinalizer
  BY <1>3 DEF CreateResource, RemoveFinalizer
<1>4. CASE EditSpec
  BY <1>1, <1>4 DEF EditSpec, Resource
<1>5. CASE DeleteResource
  BY <1>1, <1>5 DEF DeleteResource, Resource
<1>6. CASE CooldownElapses
  BY <1>1, <1>6, AgedKeeps DEF CooldownElapses, Kept
<1>7. CASE AddFinalizer
  BY <1>1, <1>7 DEF AddFinalizer, Resource
<1>8. CASE SetCreatePending
  BY <1>1, <1>8 DEF SetCreatePending, Resource
<1>9. CASE RecordCreate
  BY <1>1, <1>9 DEF RecordCreate, Resource
<1>10. CASE WriteStatus
  <2>1. cr \in Resource /\ cr # None
    BY <1>10, NoneAssumption DEF IInv, TypeOK, WriteStatus, PassStates
  <2>2. fresh => cr.hash = api.hash
    BY <2>1 DEF IInv, PassInv, Agree
  <2>3. QED
    BY <1>1, <1>10, <2>1, <2>2, StatusWrittenKeeps DEF WriteStatus, Kept
<1>11. ASSUME NEW d \in Deployments, handleDeploymentError(d)
       PROVE  api'.hash = api.hash /\ api'.created = api.created
  BY <1>1, <1>11, FailureKeeps DEF handleDeploymentError, mutateStatus, Kept
<1>12. ASSUME NEW d \in Deployments, handleDeploymentSuccess(d)
       PROVE  api'.created = api.created
  <2>1. computeSpecHash[deploy[d].spec] \in Hashes
    BY <1>12, ConstantsAssumption DEF IInv, GoroutineInv, handleDeploymentSuccess
  <2>2. QED
    BY <1>1, <1>12, <2>1, SuccessKeeps DEF handleDeploymentSuccess, mutateStatus, Kept
<1>13. QED
  BY <1>2, <1>3, <1>4, <1>5, <1>6, <1>7, <1>8, <1>9, <1>10, <1>11, <1>12, Writers

(* A step that changes the stored hash is a success being recorded.        *)
LEMMA HashStep ==
    ASSUME IInv, [Next]_vars
    PROVE  HashFromSuccess
<1> SUFFICES ASSUME api # None, api' # None, api.uid = api'.uid, api'.hash # api.hash
             PROVE  \E d \in Deployments :
                       /\ deploy[d].pc = "succeeded"
                       /\ deploy'[d].pc = "unwinding"
                       /\ api'.hash = computeSpecHash[deploy[d].spec]
  BY DEF HashFromSuccess
<1>1. PICK d \in Deployments : handleDeploymentSuccess(d)
  BY WritesKeep
<1> DEFINE h == computeSpecHash[deploy[d].spec]
<1>2. h \in Hashes
  BY <1>1, ConstantsAssumption DEF IInv, GoroutineInv, handleDeploymentSuccess
<1>3. api' = applyDeploymentSuccessStatus(api, h)
  BY <1>1 DEF handleDeploymentSuccess, mutateStatus
<1> HIDE DEF h
<1>4. api'.hash = h
  BY <1>2, <1>3, SuccessKeeps DEF IInv, TypeOK
<1>5. deploy[d].pc = "succeeded" /\ deploy'[d].pc = "unwinding"
  BY <1>1 DEF handleDeploymentSuccess, At, IInv, TypeOK, Goroutine
<1>6. QED
  BY <1>4, <1>5 DEF h

(* appliedSpecHash is written by handleDeploymentSuccess only, with the
   hash of the spec its goroutine deployed: Observe's resets and the status
   updates of passes never set or clear it.                                *)
THEOREM HashIsOfASuccess == Spec => HashOnlyFromSuccess
<1>1. IInv /\ [Next]_vars => [HashFromSuccess]_vars
  BY HashStep
<1>2. QED
  BY Inductive, <1>1, PTL DEF Spec, HashOnlyFromSuccess

(* No step takes a succeeded creation back.                                *)
LEMMA CreatedStep ==
    ASSUME IInv, [Next]_vars
    PROVE  StaysCreated
<1> SUFFICES ASSUME api # None, api' # None, api.uid = api'.uid,
                    api.created = "succeeded", api'.created # "succeeded"
             PROVE  FALSE
  BY DEF StaysCreated
<1>1. CASE SetCreatePending
  <2>1. fresh
    BY <1>1 DEF SetCreatePending
  <2>2. cr \in Resource /\ cr # None /\ pc = "create"
    BY <1>1, NoneAssumption DEF IInv, TypeOK, SetCreatePending
  <2>3. cr.created = api.created /\ cr.created # "succeeded"
    BY <2>1, <2>2 DEF IInv, PassInv, Agree
  <2>4. QED
    BY <2>3
<1>2. CASE RecordCreate
  <2>1. cr # None /\ pc \in Creating
    BY <1>2, NoneAssumption DEF IInv, TypeOK, RecordCreate, Creating
  <2>2. QED
    BY <2>1 DEF IInv, PassInv
<1>3. QED
  BY <1>1, <1>2, WritesKeep

(* A resource whose creation succeeded is never created again, whichever
   copies, edits, removals and restarts come in between.                   *)
THEOREM CreatedOnce == Spec => NeverCreatedAgain
<1>1. IInv /\ [Next]_vars => [StaysCreated]_vars
  BY CreatedStep
<1>2. QED
  BY Inductive, <1>1, PTL DEF Spec, NeverCreatedAgain

(* A launch in a pass whose copy is fresh meets no cooldown.               *)
LEMMA LaunchStep ==
    ASSUME IInv, [Next]_vars
    PROVE  LaunchUnlessCooling
<1> SUFFICES ASSUME NEW d \in Deployments, Launches(d)
             PROVE  fresh => ~coolingDown(api)
  BY DEF LaunchUnlessCooling
<1>1. CASE startBackgroundDeployment \/ Relaunch
  <2>1. cr # None /\ pc \in {"creating", "relaunch"}
    BY <1>1, NoneAssumption DEF IInv, TypeOK, startBackgroundDeployment, Relaunch
  <2>2. QED
    BY <2>1 DEF IInv, PassInv
<1>2. CASE UNCHANGED deploy
  BY <1>2 DEF Launches
<1>3. ASSUME NEW u \in UIDs, cancel(u)
      PROVE  FALSE
  BY <1>3, CancelKeeps DEF Launches, IInv
<1>4. CASE Update \/ Delete
  <2>1. cr.uid \in UIDs
    BY <1>4 DEF IInv, TypeOK, Update, Delete, Resource
  <2>2. QED
    BY <1>2, <1>3, <1>4, <2>1 DEF Update, Delete
<1>5. CASE Crash
  BY <1>5 DEF Crash, FreeSlot, Launches
<1>6. ASSUME NEW e \in Deployments, NEW l \in GoroutineStates \ {"launched"}, At(e, l)
      PROVE  FALSE
  BY <1>6 DEF At, Launches, IInv, TypeOK, Goroutine
<1>7. ASSUME NEW e \in Deployments,
              \/ StartDeploy(e) \/ LoadFails(e) \/ LoadCancelled(e)
              \/ executePackageDeployment(e) \/ DeployTimesOut(e)
              \/ DeployCancelled(e) \/ handleDeploymentError(e)
              \/ handleDeploymentSuccess(e) \/ ResultLost(e)
      PROVE  FALSE
  BY <1>6, <1>7 DEF GoroutineStates, StartDeploy, LoadFails, LoadCancelled,
         executePackageDeployment, DeployTimesOut, DeployCancelled,
         handleDeploymentError, handleDeploymentSuccess, ResultLost
<1>8. ASSUME NEW e \in Deployments, NEW r \in {"succeeded", "failed"},
             PackagerReturns(e, r)
      PROVE  FALSE
  BY <1>8 DEF PackagerReturns, Freed, FreeSlot, Launches, IInv, TypeOK, Goroutine
<1>9. ASSUME NEW e \in Deployments, Return(e)
      PROVE  FALSE
  BY <1>9 DEF Return, Returned, FreeSlot, Launches, IInv, TypeOK, Goroutine
<1>10. CASE UNCHANGED vars
  BY <1>2, <1>10 DEF vars
<1>11. QED
  BY <1>1, <1>2, <1>4, <1>5, <1>7, <1>8, <1>9, <1>10
     DEF Next, System, Pass, Background, Packager, DeployFault, User, Disturbance,
         Fault, BeginPass, ConnectFails, ObservePass, ObserveFails,
         ObserveDeletionPass, ObserveDeletionFails, AddFinalizer, WriteStatus,
         RemoveFinalizer, SetCreatePending, CreateSkips, CreateFails,
         RecordCreate, RelaunchFails, Remove, RemoveFails, CreateResource, EditSpec,
         DeleteResource, CooldownElapses, RemoveByHand, PackagerRecords

(* Only a pass whose copy is out of date launches a deployment while the
   stored breaker is cooling down.                                         *)
THEOREM BreakerIsRespected == Spec => LaunchRespectsBreaker
<1>1. IInv /\ [Next]_vars => [LaunchUnlessCooling]_vars
  BY LaunchStep
<1>2. QED
  BY Inductive, <1>1, PTL DEF Spec, LaunchRespectsBreaker

----------------------------------------------------------------------------
(***************************************************************************)
(* Update's cancel() and deploymentTracker keep the deployments of a       *)
(* resource in order, whatever the speed of goroutines, but for the two    *)
(* races that OrderKept names; Create does where no package is adopted.    *)
(***************************************************************************)

(* A UID that was not given out yet is nowhere in use.                     *)
KnownUIDs ==
    /\ api # None => api.uid <= lastUID
    /\ cr # None => cr.uid <= lastUID
    /\ \A d \in Deployments : InUse(d) => deploy[d].uid <= lastUID

(* Deployments of the stored resource belong to a creation that succeeded, *)
(* or to one that is about to be recorded; outside of Create the copy      *)
(* knows how the creation stands; and only a created resource is updated.  *)
CreationInv ==
    /\ \A d \in Deployments :
          InUse(d) /\ api # None /\ deploy[d].uid = api.uid =>
             pc = "created" \/ api.created = "succeeded"
    /\ cr # None /\ api # None /\ cr.uid = api.uid /\ pc \notin Creating =>
          cr.created = api.created
    /\ pc \in {"update", "relaunch"} => cr.created = "succeeded"
    /\ pc = "relaunch" => cr.finalizer

(* Between the creation of a resource and its Create, no package, no       *)
(* goroutine and no packager is there; and no pass works on an interrupted *)
(* creation.                                                               *)
Untouched == NothingInstalled /\ \A d \in Deployments : IsFree(d)

NotCreated == {"none", "failed"}

UncreatedCopy == cr # None /\ pc \notin Creating /\ cr.created \in NotCreated

Uncreated ==
    \/ api # None /\ api.created \in NotCreated
    \/ UncreatedCopy
    \/ pc \in {"creating", "createFailed"}

UntouchedInv ==
    /\ Uncreated => Untouched
    /\ cr # None /\ pc \notin Creating => cr.created # "pending"

(* What there is before the first resource.                                *)
FirstInv == lastUID = 0 => api = None /\ cr = None /\ Untouched

(* Whenever a resource is created, or created again under its name, nothing *)
(* is left of earlier ones and nothing was deployed by others.             *)
CreatedUntouched == [][CreateResource => Untouched]_vars

----------------------------------------------------------------------------
(* What a step does to the copy, to the stored resource and to the slots.  *)

(* A pass keeps the UID of its copy, and outside of Create what the copy   *)
(* says of the creation.                                                   *)
LEMMA CopyMoves ==
    ASSUME IInv, [Next]_vars, cr' # None
    PROVE  \/ BeginPass
           \/ /\ cr # None /\ cr'.uid = cr.uid
              /\ pc' \notin Creating => pc \notin Creating /\ cr'.created = cr.created
<1>1. CASE ObservePass
  <2>1. cr \in Resource /\ cr # None /\ pc \notin Creating
    BY <1>1, NoneAssumption DEF IInv, TypeOK, ObservePass, Creating
  <2>2. Agree(cr', cr)
    BY <1>1, <2>1, ObserveKeeps DEF ObservePass
  <2>3. QED
    BY <2>1, <2>2 DEF Agree
<1>2. CASE ObserveFails
  <2>1. cr \in Resource /\ cr # None /\ pc \notin Creating
    BY <1>2, NoneAssumption DEF IInv, TypeOK, ObserveFails, Creating
  <2>2. Kept(cr, cr')
    BY <1>2, <2>1, ResetKeeps DEF ObserveFails, Resumed, Kept
  <2>3. QED
    BY <2>1, <2>2 DEF Kept
<1>3. CASE AddFinalizer \/ SetCreatePending
  <2>1. cr # None /\ fresh
    BY <1>3 DEF IInv, TypeOK, AddFinalizer, SetCreatePending, EndPass
  <2>2. api \in Resource /\ Agree(cr, api)
    BY <2>1 DEF IInv, TypeOK, PassInv
  <2>3. CASE AddFinalizer
    BY <2>1, <2>2, <2>3 DEF AddFinalizer, Resource, Agree, Creating
  <2>4. CASE SetCreatePending
    BY <2>1, <2>2, <2>4 DEF SetCreatePending, Resource, Agree, Creating
  <2>5. QED
    BY <1>3, <2>3, <2>4
<1>4. CASE CreateSkips \/ startBackgroundDeployment
  <2>1. cr \in Resource /\ cr # None /\ pc' \in Creating
    BY <1>4, NoneAssumption DEF IInv, TypeOK, CreateSkips, startBackgroundDeployment,
         Created, Creating
  <2>2. Agree(cr', cr)
    BY <1>4, <2>1, NameKeeps, PackageNameType DEF CreateSkips,
         startBackgroundDeployment, Created
  <2>3. QED
    BY <2>1, <2>2 DEF Agree
<1>5. CASE CooldownElapses
  <2>1. cr \in Resource /\ cr # None /\ pc' = pc
    BY <1>5 DEF IInv, TypeOK, CooldownElapses, Aged
  <2>2. QED
    BY <1>5, <2>1, AgedKeeps DEF CooldownElapses, Kept
<1>6. CASE /\ cr' = cr
           /\ \/ pc' = pc
              \/ pc \notin Creating
              \/ pc' \in Creating
  BY <1>6
<1>7. QED
  BY <1>1, <1>2, <1>3, <1>4, <1>5, <1>6
     DEF vars, passVars, Next, System, Pass, Background, Packager, DeployFault, User,
         Disturbance, Fault, ConnectFails, ObserveDeletionPass, ObserveDeletionFails,
         WriteStatus, RemoveFinalizer, CreateFails, RecordCreate, Update, Relaunch,
         RelaunchFails, Delete, Remove, RemoveFails, Goto, EndPass, CreateResource,
         EditSpec, DeleteResource, StartDeploy, LoadFails, LoadCancelled,
         executePackageDeployment, PackagerRecords, PackagerReturns, DeployTimesOut,
         DeployCancelled, handleDeploymentError, handleDeploymentSuccess, ResultLost,
         Return, Crash, RemoveByHand, Creating

(* A stored resource has the UID it had, or the next one.                  *)
LEMMA UIDMoves ==
    ASSUME IInv, [Next]_vars
    PROVE  /\ CreateResource => lastUID' = lastUID + 1
           /\ ~CreateResource => lastUID' = lastUID
           /\ api' # None =>
                 \/ CreateResource /\ api'.uid = lastUID + 1
                 \/ ~CreateResource /\ api # None /\ api'.uid = api.uid
<1>1. CreateResource => lastUID' = lastUID + 1
  BY DEF CreateResource
<1>2. ~CreateResource => lastUID' = lastUID
  BY DEF vars, passVars, Next, System, Pass, Background, Packager, DeployFault, User,
         Disturbance, Fault, BeginPass, ConnectFails, ObservePass, ObserveFails,
         ObserveDeletionPass, ObserveDeletionFails, AddFinalizer, WriteStatus,
         RemoveFinalizer, SetCreatePending, CreateSkips, startBackgroundDeployment,
         Created, CreateFails, RecordCreate, Update, Relaunch, RelaunchFails, Delete,
         Remove, RemoveFails, EditSpec, DeleteResource, CooldownElapses, StartDeploy,
         LoadFails, LoadCancelled, executePackageDeployment, PackagerRecords,
         PackagerReturns, DeployTimesOut, DeployCancelled, handleDeploymentError,
         handleDeploymentSuccess, ResultLost, Return, Crash, RemoveByHand
<1>3. ASSUME api' # None, CreateResource
      PROVE  api'.uid = lastUID + 1
  BY <1>3 DEF CreateResource, NewResource
<1>4. ASSUME api' # None, ~CreateResource
      PROVE  api # None /\ api'.uid = api.uid
  <2>1. CASE api' = api
    BY <1>4, <2>1
  <2>2. CASE api' # api
    <3>1. \/ EditSpec \/ DeleteResource \/ CooldownElapses
          \/ AddFinalizer \/ WriteStatus \/ RemoveFinalizer
          \/ SetCreatePending \/ RecordCreate
          \/ \E d \in Deployments : handleDeploymentError(d) \/ handleDeploymentSuccess(d)
      BY <1>4, <2>2, Writers
    <3>2. api # None
      <4>1. CASE \/ EditSpec \/ DeleteResource \/ CooldownElapses \/ RemoveFinalizer
                 \/ \E d \in Deployments :
                       handleDeploymentError(d) \/ handleDeploymentSuccess(d)
        BY <1>4, <2>2, <4>1 DEF EditSpec, DeleteResource, CooldownElapses, Aged,
           RemoveFinalizer, handleDeploymentError, handleDeploymentSuccess, mutateStatus
      <4>2. CASE AddFinalizer \/ WriteStatus \/ SetCreatePending
        <5>1. cr # None /\ fresh
          BY <2>2, <4>2 DEF IInv, TypeOK, AddFinalizer, WriteStatus, SetCreatePending
        <5>2. QED
          BY <5>1 DEF IInv, PassInv
      <4>3. CASE RecordCreate
        <5>1. cr # None /\ pc \in Creating
          BY <4>3 DEF IInv, TypeOK, RecordCreate, Creating
        <5>2. QED
          BY <5>1 DEF IInv, PassInv
      <4>4. QED
        BY <3>1, <4>1, <4>2, <4>3
    <3>3. api \in Resource
      BY <3>2 DEF IInv, TypeOK
    <3>4. CASE EditSpec \/ DeleteResource \/ RemoveFinalizer \/ AddFinalizer
               \/ SetCreatePending \/ RecordCreate
      BY <1>4, <2>2, <3>2, <3>3, <3>4 DEF EditSpec, DeleteResource, RemoveFinalizer,
         AddFinalizer, SetCreatePending, RecordCreate, Resource
    <3>5. CASE CooldownElapses
      BY <3>2, <3>3, <3>5, AgedKeeps DEF CooldownElapses, Kept
    <3>6. CASE WriteStatus
      <4>1. cr \in Resource
        BY <3>6 DEF IInv, TypeOK, WriteStatus
      <4>2. QED
        BY <2>2, <3>2, <3>3, <3>6, <4>1, StatusWrittenKeeps DEF WriteStatus, Kept
    <3>7. ASSUME NEW d \in Deployments, handleDeploymentError(d)
          PROVE  api'.uid = api.uid
      BY <3>2, <3>3, <3>7, FailureKeeps DEF handleDeploymentError, mutateStatus, Kept
    <3>8. ASSUME NEW d \in Deployments, handleDeploymentSuccess(d)
          PROVE  api'.uid = api.uid
      <4>1. computeSpecHash[deploy[d].spec] \in Hashes
        BY <3>8, ConstantsAssumption DEF IInv, GoroutineInv, handleDeploymentSuccess
      <4>2. QED
        BY <3>2, <3>3, <3>8, <4>1, SuccessKeeps
           DEF handleDeploymentSuccess, mutateStatus, Kept
    <3>9. QED
      BY <1>4, <2>2, <3>1, <3>2, <3>4, <3>5, <3>6, <3>7, <3>8
  <2>3. QED
    BY <2>1, <2>2
<1>5. QED
  BY <1>1, <1>2, <1>3, <1>4

(* A slot is taken by a launch for the copy, or goes on for its resource.  *)
LEMMA SlotMoves ==
    ASSUME IInv, [Next]_vars
    PROVE  \/ /\ startBackgroundDeployment \/ Relaunch
              /\ \E d \in Deployments :
                    /\ ~InUse(d)
                    /\ deploy'[d] = Slot(cr)
                    /\ \A e \in Deployments \ {d} : deploy'[e] = deploy[e]
           \/ /\ ~startBackgroundDeployment /\ ~Relaunch
              /\ \A d \in Deployments : deploy'[d].pc # "free" =>
                    /\ InUse(d)
                    /\ deploy'[d].uid = deploy[d].uid
                    /\ deploy[d].cancelled => deploy'[d].cancelled
<1> DEFINE Goes(d) == deploy'[d].pc # "free" =>
                         /\ InUse(d)
                         /\ deploy'[d].uid = deploy[d].uid
                         /\ deploy[d].cancelled => deploy'[d].cancelled
<1>1. CASE startBackgroundDeployment \/ Relaunch
  <2>1. PICK d \in Deployments : launchDeploymentGoroutine(d)
    BY <1>1 DEF startBackgroundDeployment, Relaunch
  <2>2. /\ ~InUse(d) /\ deploy'[d] = Slot(cr)
        /\ \A e \in Deployments \ {d} : deploy'[e] = deploy[e]
    BY <2>1 DEF launchDeploymentGoroutine, IsFree, InUse, IInv, TypeOK
  <2>3. QED
    BY <1>1, <2>2
<1> SUFFICES ASSUME ~startBackgroundDeployment, ~Relaunch
             PROVE  \A d \in Deployments : Goes(d)
  BY <1>1
<1>2. CASE UNCHANGED deploy
  BY <1>2 DEF InUse
<1>3. ASSUME NEW u \in UIDs, cancel(u)
      PROVE  \A d \in Deployments : Goes(d)
  BY <1>3 DEF cancel, InUse, IInv, TypeOK, Goroutine
<1>4. CASE Update \/ Delete
  <2>1. cr.uid \in UIDs
    BY <1>4 DEF IInv, TypeOK, Update, Delete, Resource
  <2>2. QED
    BY <1>2, <1>3, <1>4, <2>1 DEF Update, Delete
<1>5. CASE Crash
  BY <1>5 DEF Crash, FreeSlot
<1>6. ASSUME NEW e \in Deployments, NEW l \in GoroutineStates, InUse(e), At(e, l)
      PROVE  \A d \in Deployments : Goes(d)
  BY <1>6 DEF At, InUse, IInv, TypeOK, Goroutine
<1>7. ASSUME NEW e \in Deployments,
             \/ StartDeploy(e) \/ LoadFails(e) \/ LoadCancelled(e)
             \/ executePackageDeployment(e) \/ DeployTimesOut(e)
             \/ DeployCancelled(e) \/ handleDeploymentError(e)
             \/ handleDeploymentSuccess(e) \/ ResultLost(e)
      PROVE  \A d \in Deployments : Goes(d)
  <2>1. InUse(e) /\ \E l \in GoroutineStates : At(e, l)
    BY <1>7 DEF InUse, GoroutineStates, StartDeploy, LoadFails, LoadCancelled,
       executePackageDeployment, DeployTimesOut, DeployCancelled,
       handleDeploymentError, handleDeploymentSuccess, ResultLost
  <2>2. QED
    BY <1>6, <2>1
<1>8. ASSUME NEW e \in Deployments, NEW r \in {"succeeded", "failed"},
             PackagerReturns(e, r)
      PROVE  \A d \in Deployments : Goes(d)
  BY <1>8 DEF PackagerReturns, Freed, FreeSlot, InUse, IInv, TypeOK, Goroutine
<1>9. ASSUME NEW e \in Deployments, Return(e)
      PROVE  \A d \in Deployments : Goes(d)
  BY <1>9 DEF Return, Returned, FreeSlot, InUse, IInv, TypeOK, Goroutine
<1>10. QED
  BY <1>2, <1>4, <1>5, <1>7, <1>8, <1>9
     DEF vars, Next, System, Pass, Background, Packager, DeployFault, User,
         Disturbance, Fault, BeginPass, ConnectFails, ObservePass, ObserveFails,
         ObserveDeletionPass, ObserveDeletionFails, AddFinalizer, WriteStatus,
         RemoveFinalizer, SetCreatePending, CreateSkips, CreateFails,
         RecordCreate, RelaunchFails, Remove, RemoveFails, CreateResource, EditSpec,
         DeleteResource, CooldownElapses, RemoveByHand, PackagerRecords

----------------------------------------------------------------------------
(* The invariants are inductive.                                           *)

(* No step makes use of a UID before it is given out.                      *)
LEMMA KnownStep ==
    ASSUME IInv, KnownUIDs, CreationInv, [Next]_vars
    PROVE  KnownUIDs'
<1>1. lastUID \in Nat /\ lastUID' \in Nat /\ lastUID <= lastUID'
  BY UIDMoves, ConstantsAssumption DEF IInv, TypeOK
<1>2. api # None => api.uid \in Nat
  BY DEF IInv, TypeOK, Resource, UIDs
<1>3. cr # None => cr.uid \in Nat
  BY DEF IInv, TypeOK, Resource, UIDs
<1>4. \A d \in Deployments : InUse(d) => deploy[d].uid \in Nat
  BY DEF IInv, GoroutineInv, InUse, UIDs
<1>5. api' # None => api'.uid <= lastUID'
  BY <1>1, <1>2, UIDMoves DEF KnownUIDs
<1>6. cr' # None => cr'.uid <= lastUID'
  <2>1. CASE BeginPass
    BY <1>1, <1>2, <2>1 DEF KnownUIDs, BeginPass
  <2>2. CASE cr # None /\ cr'.uid = cr.uid
    BY <1>1, <1>3, <2>2 DEF KnownUIDs
  <2>3. QED
    BY <2>1, <2>2, CopyMoves
<1>7. ASSUME NEW d \in Deployments, deploy'[d].pc # "free"
      PROVE  deploy'[d].uid <= lastUID'
  <2>1. CASE deploy'[d] = Slot(cr) /\ (startBackgroundDeployment \/ Relaunch)
    <3>1. cr # None /\ deploy'[d].uid = cr.uid
      BY <2>1 DEF Slot, IInv, TypeOK, startBackgroundDeployment, Relaunch
    <3>2. QED
      BY <1>1, <1>3, <3>1 DEF KnownUIDs
  <2>2. CASE InUse(d) /\ deploy'[d].uid = deploy[d].uid
    BY <1>1, <1>4, <2>2 DEF KnownUIDs
  <2>3. QED
    BY <1>7, <2>1, <2>2, SlotMoves DEF InUse
<1>8. QED
  BY <1>5, <1>6, <1>7 DEF KnownUIDs, InUse

(* A pass that holds the finalizer works for the stored resource.          *)
LEMMA HoldsResource ==
    ASSUME IInv, cr # None, cr.finalizer
    PROVE  api \in Resource /\ api # None /\ api.uid = cr.uid
BY NoneAssumption DEF IInv, TypeOK, PassInv

(* Every step keeps deployments to created resources.                      *)
LEMMA CreationStep ==
    ASSUME IInv, KnownUIDs, CreationInv, [Next]_vars, [UpdateFollowsCreation]_vars
    PROVE  CreationInv'
<1>1. ASSUME NEW d \in Deployments, deploy'[d].pc # "free", api' # None,
             deploy'[d].uid = api'.uid
      PROVE  pc' = "created" \/ api'.created = "succeeded"
  <2>1. CASE startBackgroundDeployment
    BY <2>1 DEF startBackgroundDeployment, Created
  <2>2. CASE Relaunch
    <3>1. cr # None /\ cr.finalizer /\ cr.created = "succeeded" /\ pc \notin Creating
      BY <2>2 DEF CreationInv, Relaunch, Creating, IInv, TypeOK
    <3>2. api.created = "succeeded" /\ api' = api
      BY <2>2, <3>1, HoldsResource DEF CreationInv, Relaunch
    <3>3. QED
      BY <3>2
  <2>3. CASE ~startBackgroundDeployment /\ ~Relaunch
    <3>1. InUse(d) /\ deploy'[d].uid = deploy[d].uid
      BY <1>1, <2>3, SlotMoves
    <3>2. deploy[d].uid \in Nat /\ lastUID \in Nat /\ deploy[d].uid <= lastUID
      BY <3>1, ConstantsAssumption DEF KnownUIDs, IInv, TypeOK, GoroutineInv, InUse, UIDs
    <3>3. api # None /\ api'.uid = api.uid
      BY <1>1, <3>1, <3>2, UIDMoves
    <3>4. CASE api.created = "succeeded"
      BY <1>1, <3>3, <3>4, CreatedStep DEF StaysCreated
    <3>5. CASE pc = "created"
      <4>1. CASE RecordCreate
        <5>1. api \in Resource
          BY <3>3 DEF IInv, TypeOK
        <5>2. QED
          BY <3>5, <4>1, <5>1 DEF RecordCreate, Resource
      <4>2. CASE Crash
        BY <1>1, <4>2 DEF Crash, FreeSlot
      <4>3. CASE ~RecordCreate /\ ~Crash
        <5>1. pc' = pc
          BY <3>5, <4>3 DEF vars, passVars, Next, System, Pass, Background, Packager,
             DeployFault, User, Disturbance, Fault, BeginPass, ConnectFails, ObservePass,
             ObserveFails, ObserveDeletionPass, ObserveDeletionFails, AddFinalizer,
             WriteStatus, RemoveFinalizer, SetCreatePending, CreateSkips,
             startBackgroundDeployment, CreateFails, Update, Relaunch, RelaunchFails,
             Delete, Remove, RemoveFails, CreateResource, EditSpec, DeleteResource,
             CooldownElapses, StartDeploy, LoadFails, LoadCancelled,
             executePackageDeployment, PackagerRecords, PackagerReturns, DeployTimesOut,
             DeployCancelled, handleDeploymentError, handleDeploymentSuccess, ResultLost,
             Return, RemoveByHand
        <5>2. QED
          BY <3>5, <5>1
      <4>4. QED
        BY <4>1, <4>2, <4>3
    <3>6. QED
      BY <1>1, <3>1, <3>3, <3>4, <3>5 DEF CreationInv
  <2>4. QED
    BY <2>1, <2>2, <2>3
<1>2. ASSUME cr' # None, api' # None, cr'.uid = api'.uid, pc' \notin Creating
      PROVE  cr'.created = api'.created
  <2>1. CASE BeginPass
    BY <2>1 DEF BeginPass
  <2>2. CASE ~BeginPass
    <3>1. cr # None /\ cr'.uid = cr.uid /\ cr'.created = cr.created /\ pc \notin Creating
      BY <1>2, <2>2, CopyMoves
    <3>2. cr.uid \in Nat /\ lastUID \in Nat /\ cr.uid <= lastUID
      BY <3>1, ConstantsAssumption DEF KnownUIDs, IInv, TypeOK, Resource, UIDs
    <3>3. api # None /\ api'.uid = api.uid
      BY <1>2, <3>1, <3>2, UIDMoves
    <3>4. ~RecordCreate
      BY <3>1 DEF RecordCreate, Creating
    <3>5. SetCreatePending => api' = api
      BY <1>2, <2>2 DEF SetCreatePending, Creating
    <3>6. api'.created = api.created
      BY <1>2, <3>3, <3>4, <3>5, WritesKeep
    <3>7. QED
      BY <1>2, <3>1, <3>3, <3>6 DEF CreationInv
  <2>3. QED
    BY <2>1, <2>2
<1>3. ASSUME pc' \in {"update", "relaunch"}
      PROVE  /\ cr'.created = "succeeded"
             /\ pc' = "relaunch" => cr'.finalizer
  <2>1. CASE ObservePass
    <3>1. cr \in Resource /\ pc' = "update"
      BY <1>3, <2>1, ObserveKeeps DEF IInv, TypeOK, ObservePass
    <3>2. cr.created = "succeeded"
      BY <2>1, <3>1 DEF UpdateFollowsCreation, ObservePass, vars
    <3>3. Agree(cr', cr)
      BY <2>1, <3>1, ObserveKeeps DEF ObservePass
    <3>4. QED
      BY <3>1, <3>2, <3>3 DEF Agree
  <2>2. CASE AddFinalizer
    <3>1. cr # None /\ fresh /\ pc = "update" /\ pc' = "update"
      BY <1>3, <2>2 DEF IInv, TypeOK, AddFinalizer, EndPass
    <3>2. api \in Resource /\ Agree(cr, api)
      BY <3>1 DEF IInv, TypeOK, PassInv
    <3>3. QED
      BY <2>2, <3>1, <3>2 DEF AddFinalizer, Agree, Resource, CreationInv
  <2>3. CASE Update
    BY <1>3, <2>3 DEF Update, Goto, CreationInv
  <2>4. CASE CooldownElapses
    <3>1. cr \in Resource /\ cr # None /\ pc' = pc
      BY <1>3, <2>4 DEF IInv, TypeOK, CooldownElapses
    <3>2. QED
      BY <1>3, <2>4, <3>1, AgedKeeps DEF CooldownElapses, Kept, CreationInv
  <2>5. CASE UNCHANGED <<pc, cr>>
    BY <1>3, <2>5 DEF CreationInv
  <2>6. QED
    BY <1>3, <2>1, <2>2, <2>3, <2>4, <2>5
       DEF vars, passVars, Next, System, Pass, Background, Packager, DeployFault, User,
         Disturbance, Fault, BeginPass, ConnectFails, ObserveFails, ObserveDeletionPass,
         ObserveDeletionFails, observeDeletion, WriteStatus, RemoveFinalizer,
         SetCreatePending, CreateSkips, startBackgroundDeployment, Created, CreateFails,
         RecordCreate, Relaunch, RelaunchFails, Delete, Remove, RemoveFails, Goto,
         EndPass, CreateResource, EditSpec, DeleteResource, StartDeploy, LoadFails,
         LoadCancelled, executePackageDeployment, PackagerRecords, PackagerReturns,
         DeployTimesOut, DeployCancelled, handleDeploymentError,
         handleDeploymentSuccess, ResultLost, Return, Crash, RemoveByHand
<1>4. QED
  BY <1>1, <1>2, <1>3 DEF CreationInv, InUse

(* cancel() leaves no deployment of the UID that is live and not cancelled. *)
LEMMA CancelSerial ==
    ASSUME IInv, TrackedIsLive, Orderly, NEW u \in UIDs, cancel(u)
    PROVE  /\ \A d \in Deployments :
                 /\ deploy'[d].pc = deploy[d].pc /\ deploy'[d].uid = deploy[d].uid
                 /\ deploy[d].cancelled => deploy'[d].cancelled
           /\ \A d \in Deployments :
                 deploy[d].pc \in Live /\ deploy[d].uid = u => deploy'[d].cancelled
           /\ \A d \in Deployments :
                 deploy[d].pc \in Live /\ ~deploy'[d].cancelled =>
                    tracker'[deploy[d].uid] = d
<1>1. \A d \in Deployments :
         /\ deploy'[d].pc = deploy[d].pc /\ deploy'[d].uid = deploy[d].uid
         /\ deploy[d].cancelled => deploy'[d].cancelled
  BY DEF cancel, IInv, TypeOK, Goroutine
<1>2. ASSUME NEW d \in Deployments, deploy[d].pc \in Live, deploy[d].uid = u
      PROVE  deploy'[d].cancelled
  <2>1. CASE deploy[d].cancelled
    BY <1>1, <2>1
  <2>2. CASE ~deploy[d].cancelled
    <3>1. tracker[u] = d /\ tracker[u] # None
      BY <1>2, <2>2, NoneAssumption DEF Orderly
    <3>2. deploy' = [deploy EXCEPT ![d].cancelled = TRUE]
      BY <3>1 DEF cancel
    <3>3. QED
      BY <3>2 DEF IInv, TypeOK, Goroutine
  <2>3. QED
    BY <2>1, <2>2
<1>3. ASSUME NEW d \in Deployments, deploy[d].pc \in Live, ~deploy'[d].cancelled
      PROVE  tracker'[deploy[d].uid] = d
  <2>1. deploy[d].uid # u /\ ~deploy[d].cancelled
    BY <1>1, <1>2, <1>3
  <2>2. tracker[deploy[d].uid] = d
    BY <1>3, <2>1 DEF Orderly
  <2>3. deploy[d].uid \in UIDs
    BY <1>3 DEF IInv, GoroutineInv, Live
  <2>4. QED
    BY <2>1, <2>2, <2>3 DEF cancel, IInv, TypeOK
<1>4. QED
  BY <1>1, <1>2, <1>3

(* A launch that comes after the sleep finds no goroutine of its resource. *)
LEMMA LaunchIsAlone ==
    ASSUME IInv, Orderly, CreateIsAlone, ~RelaunchesTooEarly,
           startBackgroundDeployment \/ Relaunch,
           NEW d \in Deployments, Launches(d),
           NEW e \in Deployments, InUse(e)
    PROVE  deploy[e].uid # cr.uid
<1>1. CASE startBackgroundDeployment
  BY <1>1 DEF startBackgroundDeployment, CreateIsAlone
<1>2. CASE Relaunch
  <2>1. deploy[e].uid = cr.uid => deploy[e].cancelled
    BY <1>2 DEF Relaunch, Orderly
  <2>2. QED
    BY <1>2, <2>1 DEF Relaunch, RelaunchesTooEarly
<1>3. QED
  BY <1>1, <1>2

(* Every step keeps the goroutines of a resource apart.                    *)
LEMMA ApartStep ==
    ASSUME IInv, Orderly, CreateIsAlone, ~RelaunchesTooEarly, [Next]_vars,
           NEW d \in Deployments, NEW e \in Deployments, d # e,
           deploy'[d].pc # "free", deploy'[e].pc # "free"
    PROVE  deploy'[d].uid # deploy'[e].uid
<1>1. CASE startBackgroundDeployment \/ Relaunch
  <2>1. cr \in Resource
    BY <1>1 DEF IInv, TypeOK, startBackgroundDeployment, Relaunch
  <2>2. PICK f \in Deployments : /\ ~InUse(f)
                                /\ deploy'[f] = Slot(cr)
                                /\ \A g \in Deployments \ {f} : deploy'[g] = deploy[g]
    BY <1>1, SlotMoves
  <2>3. deploy'[f].uid = cr.uid /\ Launches(f)
    BY <2>1, <2>2 DEF Slot, Launches, InUse
  <2>4. \A g \in Deployments \ {f} : deploy'[g].pc # "free" => deploy'[g].uid # cr.uid
    BY <1>1, <2>2, <2>3, LaunchIsAlone DEF InUse
  <2>5. QED
    BY <2>2, <2>3, <2>4 DEF Orderly, InUse
<1>2. CASE ~startBackgroundDeployment /\ ~Relaunch
  BY <1>2, SlotMoves DEF Orderly
<1>3. QED
  BY <1>1, <1>2

(* Every step keeps deployments that are not cancelled tracked.            *)
LEMMA LiveTrackedStep ==
    ASSUME IInv, TrackedIsLive, Orderly, [Next]_vars,
           NEW d \in Deployments, deploy'[d].pc \in Live, ~deploy'[d].cancelled
    PROVE  tracker'[deploy'[d].uid] = d
<1>1. CASE UNCHANGED <<tracker, deploy>>
  BY <1>1 DEF Orderly
<1>2. CASE startBackgroundDeployment \/ Relaunch
  <2>1. cr \in Resource /\ tracker' = tracker
    BY <1>2 DEF IInv, TypeOK, startBackgroundDeployment, Created, Relaunch
  <2>2. PICK f \in Deployments : /\ deploy'[f] = Slot(cr)
                                /\ \A g \in Deployments \ {f} : deploy'[g] = deploy[g]
    BY <1>2, SlotMoves
  <2>3. d # f
    BY <2>1, <2>2, SlotType DEF Live
  <2>4. QED
    BY <2>1, <2>2, <2>3 DEF Orderly
<1>3. CASE Update \/ Delete
  <2>1. cr.uid \in UIDs
    BY <1>3 DEF IInv, TypeOK, Update, Delete, Resource
  <2>2. CASE cancel(cr.uid)
    BY <2>1, <2>2, CancelSerial
  <2>3. QED
    BY <1>1, <1>3, <2>2 DEF Update, Delete
<1>4. CASE Crash
  BY <1>4 DEF Crash, FreeSlot, Live
<1>5. ASSUME NEW e \in Deployments, StartDeploy(e)
      PROVE  tracker'[deploy'[d].uid] = d
  <2>1. /\ InUse(e) /\ deploy[e].uid \in UIDs /\ deploy'[e].uid = deploy[e].uid
        /\ \A f \in Deployments \ {e} : deploy'[f] = deploy[f]
    BY <1>5 DEF StartDeploy, At, InUse, IInv, TypeOK, Goroutine, GoroutineInv
  <2>2. tracker'[deploy[e].uid] = e /\ \A u \in UIDs \ {deploy[e].uid} : tracker'[u] = tracker[u]
    BY <1>5, <2>1 DEF StartDeploy, track, IInv, TypeOK
  <2>3. CASE d = e
    BY <2>1, <2>2, <2>3
  <2>4. CASE d # e
    <3>1. InUse(d) /\ deploy[d].uid \in UIDs /\ deploy[d].uid # deploy[e].uid
      BY <2>1, <2>4 DEF Orderly, InUse, Live, IInv, GoroutineInv
    <3>2. tracker[deploy[d].uid] = d
      BY <2>1, <2>4 DEF Orderly
    <3>3. QED
      BY <2>1, <2>2, <2>4, <3>1, <3>2
  <2>5. QED
    BY <2>3, <2>4
<1>6. ASSUME NEW e \in Deployments, NEW l \in Live, deploy[e].pc \in Live, At(e, l),
             tracker' = tracker
      PROVE  tracker'[deploy'[d].uid] = d
  <2>1. /\ deploy'[e].uid = deploy[e].uid /\ deploy'[e].cancelled = deploy[e].cancelled
        /\ \A f \in Deployments \ {e} : deploy'[f] = deploy[f]
    BY <1>6 DEF At, IInv, TypeOK, Goroutine
  <2>2. QED
    BY <1>6, <2>1 DEF Orderly
<1>7. ASSUME NEW e \in Deployments,
             \/ LoadFails(e) \/ LoadCancelled(e) \/ executePackageDeployment(e)
             \/ DeployTimesOut(e) \/ DeployCancelled(e) \/ handleDeploymentError(e)
             \/ handleDeploymentSuccess(e) \/ ResultLost(e)
      PROVE  tracker'[deploy'[d].uid] = d
  <2>1. deploy[e].pc \in Live /\ (\E l \in Live : At(e, l)) /\ tracker' = tracker
    BY <1>7 DEF Live, LoadFails, LoadCancelled, executePackageDeployment,
       DeployTimesOut, DeployCancelled, handleDeploymentError,
       handleDeploymentSuccess, ResultLost
  <2>2. QED
    BY <1>6, <2>1
<1>8. ASSUME NEW e \in Deployments, NEW r \in {"succeeded", "failed"},
             PackagerReturns(e, r)
      PROVE  tracker'[deploy'[d].uid] = d
  <2>1. CASE deploy[e].pc = "executing"
    BY <1>6, <1>8, <2>1 DEF PackagerReturns, At, Live
  <2>2. CASE deploy[e].pc # "executing"
    <3>1. deploy' = Freed(e) /\ tracker' = tracker
      BY <1>8, <2>2 DEF PackagerReturns
    <3>2. deploy'[d] = deploy[d]
      BY <3>1 DEF Freed, FreeSlot, Live, IInv, TypeOK
    <3>3. QED
      BY <3>1, <3>2 DEF Orderly
  <2>3. QED
    BY <2>1, <2>2
<1>9. ASSUME NEW e \in Deployments, Return(e)
      PROVE  tracker'[deploy'[d].uid] = d
  <2>1. /\ InUse(e) /\ deploy[e].uid \in UIDs /\ deploy'[e].pc = "free"
        /\ \A f \in Deployments \ {e} : deploy'[f] = deploy[f]
    BY <1>9 DEF Return, Returned, FreeSlot, InUse, IInv, TypeOK, Goroutine, GoroutineInv
  <2>2. d # e
    BY <2>1 DEF Live
  <2>3. InUse(d) /\ deploy[d].uid \in UIDs /\ deploy[d].uid # deploy[e].uid
    BY <2>1, <2>2 DEF Orderly, InUse, Live, IInv, GoroutineInv
  <2>4. tracker'[deploy[d].uid] = tracker[deploy[d].uid]
    BY <1>9, <2>1, <2>3 DEF Return, untrack, IInv, TypeOK
  <2>5. QED
    BY <2>1, <2>2, <2>4 DEF Orderly
<1>10. CASE UNCHANGED vars
  BY <1>1, <1>10 DEF vars
<1>11. QED
  BY <1>1, <1>2, <1>3, <1>4, <1>5, <1>7, <1>8, <1>9, <1>10
     DEF Next, System, Pass, Background, Packager, DeployFault, User, Disturbance,
         Fault, BeginPass, ConnectFails, ObservePass, ObserveFails,
         ObserveDeletionPass, ObserveDeletionFails, AddFinalizer, WriteStatus,
         RemoveFinalizer, SetCreatePending, CreateSkips, Created, CreateFails,
         RecordCreate, RelaunchFails, Remove, RemoveFails, CreateResource, EditSpec,
         DeleteResource, CooldownElapses, RemoveByHand, PackagerRecords

(* When Update has slept, every goroutine of the resource is cancelled.    *)
LEMMA CancelledStep ==
    ASSUME IInv, TrackedIsLive, Orderly, ~CancelsTooEarly, [Next]_vars,
           pc' = "relaunch",
           NEW d \in Deployments, deploy'[d].pc # "free", deploy'[d].uid = cr'.uid
    PROVE  deploy'[d].cancelled
<1>1. CASE Update
  <2>1. cr.uid \in UIDs /\ cr' = cr
    BY <1>1 DEF IInv, TypeOK, Update, Resource, Goto
  <2>2. cancel(cr.uid) /\ pc = "update"
    BY <1>1 DEF Update, Goto
  <2>3. deploy'[d].pc = deploy[d].pc /\ deploy'[d].uid = deploy[d].uid
    BY <2>1, <2>2, CancelSerial
  <2>4. deploy[d].pc # "launched" /\ deploy[d].pc # "free"
    BY <2>1, <2>2, <2>3 DEF CancelsTooEarly
  <2>5. deploy[d].pc \in Live
    BY <2>4 DEF Live, IInv, TypeOK, Goroutine, GoroutineStates
  <2>6. QED
    BY <2>1, <2>2, <2>3, <2>5, CancelSerial
<1>2. CASE ~Update
  <2>1. ~ObservePass
    <3>1. ObservePass => cr \in Resource
      BY DEF IInv, TypeOK, ObservePass
    <3>2. QED
      BY <3>1, ObserveKeeps DEF ObservePass
  <2>2. /\ pc = "relaunch"
        /\ ~BeginPass /\ ~startBackgroundDeployment /\ ~Relaunch
    BY <1>2, <2>1
       DEF vars, passVars, Next, System, Pass, Background, Packager, DeployFault, User,
         Disturbance, Fault, BeginPass, ConnectFails, ObserveFails,
         ObserveDeletionPass, ObserveDeletionFails, observeDeletion, AddFinalizer,
         WriteStatus, RemoveFinalizer, SetCreatePending, CreateSkips,
         startBackgroundDeployment, Created, CreateFails,
         RecordCreate, Relaunch, RelaunchFails, Delete, Remove, RemoveFails, Goto,
         EndPass, CreateResource, EditSpec, DeleteResource, CooldownElapses, StartDeploy,
         LoadFails, LoadCancelled, executePackageDeployment, PackagerRecords,
         PackagerReturns, DeployTimesOut, DeployCancelled, handleDeploymentError,
         handleDeploymentSuccess, ResultLost, Return, Crash, RemoveByHand
  <2>3. cr' # None
    <3>1. TypeOK'
      BY TypeStep
    <3>2. QED
      BY <3>1 DEF TypeOK
  <2>4. cr'.uid = cr.uid
    BY <2>2, <2>3, CopyMoves
  <2>5. /\ InUse(d) /\ deploy'[d].uid = deploy[d].uid
        /\ deploy[d].cancelled => deploy'[d].cancelled
    BY <2>2, SlotMoves
  <2>6. QED
    BY <2>2, <2>4, <2>5 DEF Orderly
<1>3. QED
  BY <1>1, <1>2

(* Every step keeps the order, unless it is one of the two races or a      *)
(* Create beside another deployment.                                       *)
LEMMA OrderStep ==
    ASSUME IInv, TrackedIsLive, CreateIsAlone, [Next]_vars
    PROVE  KeepsOrder
<1> SUFFICES ASSUME Orderly, ~CancelsTooEarly, ~RelaunchesTooEarly
             PROVE  Orderly'
  BY DEF KeepsOrder
<1>1. QED
  BY ApartStep, LiveTrackedStep, CancelledStep DEF Orderly, InUse

(* Two races alone put the deployments of a resource out of order: Update's
   cancel() before a track(), and its launch before a goroutine it cancelled
   has returned. No restart, edit, deletion, late result or re-creation does,
   if Create launches alone.                                               *)
THEOREM OrderIsKept == Spec /\ CreateLaunchesAlone => OrderKept
<1>1. IInv /\ TrackedIsLive /\ [Next]_vars /\ [CreateIsAlone]_vars => [KeepsOrder]_vars
  <2> SUFFICES ASSUME IInv, TrackedIsLive, [Next]_vars, [CreateIsAlone]_vars,
                      vars' # vars
               PROVE  KeepsOrder
    OBVIOUS
  <2>1. QED
    BY OrderStep
<1>2. QED
  BY Inductive, TrackerIsLive, <1>1, PTL DEF Spec, CreateLaunchesAlone, OrderKept

----------------------------------------------------------------------------
(* No adoption: the theorems for a controller that updates only what it    *)
(* has created.                                                            *)

(* The invariant in the initial states.                                    *)
LEMMA InitCreation == Init => KnownUIDs /\ CreationInv
BY DEF Init, FreeSlot, KnownUIDs, CreationInv, InUse

(* It holds in every behaviour without adoption.                           *)
LEMMA CreationInductive ==
    Spec /\ UpdatesOnlyCreated => [](KnownUIDs /\ CreationInv)
<1>1. IInv /\ KnownUIDs /\ CreationInv /\ [Next]_vars /\ [UpdateFollowsCreation]_vars
         => KnownUIDs' /\ CreationInv'
  BY KnownStep, CreationStep
<1>2. QED
  BY Inductive, InitCreation, <1>1, PTL DEF Spec, UpdatesOnlyCreated

(* What Create launches is alone: a deployment of the resource would belong *)
(* to a creation that is over.                                             *)
LEMMA CreateFindsNothing ==
    ASSUME IInv, CreationInv
    PROVE  CreateIsAlone
<1> SUFFICES ASSUME pc = "creating", NEW e \in Deployments, InUse(e)
             PROVE  deploy[e].uid # cr.uid
  BY DEF CreateIsAlone
<1>1. cr # None
  BY DEF IInv, TypeOK
<1>2. cr.finalizer /\ api.created = "pending"
  BY <1>1 DEF IInv, PassInv, Creating
<1>3. api # None /\ api.uid = cr.uid
  BY <1>1, <1>2, HoldsResource
<1>4. QED
  BY <1>2, <1>3 DEF CreationInv

----------------------------------------------------------------------------
(* A resource that is created in an empty cluster adopts nothing.          *)

(* Observe asks for an update of what is installed or was created.         *)
LEMMA ObserveUncreated ==
    ASSUME NothingInstalled, NEW c \in Resource, Observe(c).pc = "update"
    PROVE  c.created = "succeeded"
<1> DEFINE m == Resumed(c)
           n == [m EXCEPT !.extName = getPackageName(m)]
<1>1. m \in Resource /\ m.created = c.created
  BY ResetKeeps DEF Resumed, Kept
<1> HIDE DEF m
<1>2. n.created = m.created
  BY <1>1 DEF Resource
<1>3. ~IsInstalled(getPackageName(m))
  BY <1>1, PackageNameType DEF NothingInstalled
<1> HIDE DEF n
<1>4. CASE coolingDown(c)
  BY <1>4 DEF Observe, Observed
<1>5. CASE ~coolingDown(c)
  <2>1. Observe(c) = handleNotInstalled(n)
    BY <1>3, <1>5 DEF Observe, observeInstallation, m, n
  <2>2. n.created = "succeeded"
    BY <2>1 DEF handleNotInstalled, Observed
  <2>3. QED
    BY <1>1, <1>2, <2>2
<1>6. QED
  BY <1>4, <1>5

(* So it follows the creation.                                             *)
LEMMA FollowsStep ==
    ASSUME IInv, UntouchedInv, [Next]_vars
    PROVE  UpdateFollowsCreation
<1> SUFFICES ASSUME pc = "observe", pc' = "update"
             PROVE  cr.created = "succeeded"
  BY DEF UpdateFollowsCreation
<1>1. cr \in Resource /\ cr # None /\ pc \notin Creating
  BY DEF IInv, TypeOK, Creating
<1>2. ObservePass
  BY DEF vars, passVars, Next, System, Pass, Background, Packager, DeployFault, User,
     Disturbance, Fault, BeginPass, ConnectFails, ObserveFails,
     ObserveDeletionPass, ObserveDeletionFails, observeDeletion, AddFinalizer,
     WriteStatus, RemoveFinalizer, SetCreatePending, CreateSkips,
     startBackgroundDeployment, Created, CreateFails, Update,
     RecordCreate, Relaunch, RelaunchFails, Delete, Remove, RemoveFails, Goto,
     EndPass, CreateResource, EditSpec, DeleteResource, CooldownElapses, StartDeploy,
     LoadFails, LoadCancelled, executePackageDeployment, PackagerRecords,
     PackagerReturns, DeployTimesOut, DeployCancelled, handleDeploymentError,
     handleDeploymentSuccess, ResultLost, Return, Crash, RemoveByHand
<1>3. cr.created \in NotCreated => NothingInstalled
  BY <1>1 DEF UntouchedInv, Uncreated, UncreatedCopy, Untouched
<1>4. cr.created \in NotCreated => cr.created = "succeeded"
  BY <1>1, <1>2, <1>3, ObserveUncreated DEF ObservePass
<1>5. cr.created \in NotCreated \cup {"succeeded"}
  BY <1>1 DEF UntouchedInv, Resource, Creation, NotCreated
<1>6. QED
  BY <1>4, <1>5

(* What is not created yet was not created before the step, or is new.     *)
LEMMA UncreatedMoves ==
    ASSUME IInv, KnownUIDs, CreationInv, UntouchedInv, [Next]_vars, Uncreated',
           ~CreateResource
    PROVE  Uncreated
<1>1. CASE api' # None /\ api'.created \in NotCreated
  <2>1. api # None /\ api.uid = api'.uid
    BY <1>1, UIDMoves
  <2>2. CASE SetCreatePending
    <3>1. api \in Resource
      BY <2>1 DEF IInv, TypeOK
    <3>2. CASE fresh
      BY <1>1, <2>2, <3>1, <3>2 DEF SetCreatePending, NotCreated, Resource
    <3>3. CASE ~fresh
      BY <1>1, <2>1, <2>2, <3>3 DEF SetCreatePending, Uncreated
    <3>4. QED
      BY <3>2, <3>3
  <2>3. CASE RecordCreate
    <3>1. api \in Resource
      BY <2>1 DEF IInv, TypeOK
    <3>2. pc = "createFailed"
      BY <1>1, <2>3, <3>1 DEF RecordCreate, NotCreated, Resource
    <3>3. QED
      BY <3>2 DEF Uncreated
  <2>4. CASE api'.created = api.created
    BY <1>1, <2>1, <2>4 DEF Uncreated
  <2>5. QED
    BY <1>1, <2>1, <2>2, <2>3, <2>4, WritesKeep
<1>2. CASE cr' # None /\ pc' \notin Creating /\ cr'.created \in NotCreated
  BY <1>2, CopyMoves DEF BeginPass, Uncreated, UncreatedCopy
<1>3. CASE pc' \in {"creating", "createFailed"}
  <2>1. CASE SetCreatePending
    <3>1. cr \in Resource /\ cr # None /\ pc = "create"
      BY <2>1, NoneAssumption DEF IInv, TypeOK, SetCreatePending
    <3>2. cr.created # "succeeded" /\ cr.created # "pending"
      BY <3>1 DEF IInv, PassInv, UntouchedInv, Creating
    <3>3. cr.created \in NotCreated
      BY <3>1, <3>2 DEF Resource, Creation, NotCreated
    <3>4. QED
      BY <3>1, <3>3 DEF Uncreated, UncreatedCopy, Creating
  <2>2. CASE ObservePass
    <3>1. cr \in Resource
      BY <2>2 DEF IInv, TypeOK, ObservePass
    <3>2. QED
      BY <1>3, <2>2, <3>1, ObserveKeeps DEF ObservePass
  <2>3. CASE ~SetCreatePending /\ ~ObservePass
    <3>1. pc \in {"creating", "createFailed"}
      BY <1>3, <2>3
       DEF vars, passVars, Next, System, Pass, Background, Packager, DeployFault, User,
         Disturbance, Fault, BeginPass, ConnectFails, ObserveFails,
         ObserveDeletionPass, ObserveDeletionFails, observeDeletion, AddFinalizer,
         WriteStatus, RemoveFinalizer, CreateSkips,
         startBackgroundDeployment, Created, CreateFails, Update,
         RecordCreate, Relaunch, RelaunchFails, Delete, Remove, RemoveFails, Goto,
         EndPass, CreateResource, EditSpec, DeleteResource, CooldownElapses, StartDeploy,
         LoadFails, LoadCancelled, executePackageDeployment, PackagerRecords,
         PackagerReturns, DeployTimesOut, DeployCancelled, handleDeploymentError,
         handleDeploymentSuccess, ResultLost, Return, Crash, RemoveByHand
    <3>2. QED
      BY <3>1 DEF Uncreated
  <2>4. QED
    BY <2>1, <2>2, <2>3
<1>4. QED
  BY <1>1, <1>2, <1>3 DEF Uncreated, UncreatedCopy

(* Only a launch, which belongs to a creation, ends the untouched state.   *)
LEMMA UntouchedMoves ==
    ASSUME IInv, Untouched, [Next]_vars, ~startBackgroundDeployment, ~Relaunch
    PROVE  Untouched'
<1>1. \A d \in Deployments : deploy[d].pc = "free" /\ packager[d] = "off"
  BY DEF Untouched, IsFree
<1>2. \A n \in Names : content[n] = None
  BY DEF Untouched, NothingInstalled, IsInstalled
<1>3. \A d \in Deployments : deploy'[d].pc = "free"
  BY <1>1, SlotMoves DEF InUse
<1>4. \A d \in Deployments : ~Background(d) /\ ~Packager(d) /\ ~DeployFault(d) /\ ~ResultLost(d)
  BY <1>1 DEF Background, Packager, DeployFault, StartDeploy, LoadFails, LoadCancelled,
     executePackageDeployment, PackagerRecords, PackagerReturns, DeployTimesOut,
     DeployCancelled, handleDeploymentError, handleDeploymentSuccess, ResultLost, Return
<1>5. \A d \in Deployments : packager'[d] = "off"
  BY <1>1, <1>4
     DEF vars, passVars, Next, System, Pass, User,
       Disturbance, Fault, BeginPass, ConnectFails, ObservePass, ObserveFails,
       ObserveDeletionPass, ObserveDeletionFails, AddFinalizer,
       WriteStatus, RemoveFinalizer, SetCreatePending, CreateSkips, Created, CreateFails,
       Update, RecordCreate, RelaunchFails, Delete, Remove, RemoveFails,
       CreateResource, EditSpec, DeleteResource, CooldownElapses, Crash, RemoveByHand
<1>6. \A n \in Names : content'[n] = None
  <2>1. CASE \E m \in Names : content' = [content EXCEPT ![m] = None]
    BY <1>2, <2>1 DEF IInv, TypeOK
  <2>2. CASE Remove
    BY <1>2, <2>2 DEF Remove, IInv, TypeOK
  <2>3. CASE content' = content
    BY <1>2, <2>3
  <2>4. QED
    BY <1>4, <2>1, <2>2, <2>3
       DEF vars, passVars, Next, System, Pass, User,
         Disturbance, Fault, BeginPass, ConnectFails, ObservePass, ObserveFails,
         ObserveDeletionPass, ObserveDeletionFails, AddFinalizer, WriteStatus,
         RemoveFinalizer, SetCreatePending, CreateSkips, Created, CreateFails,
         Update, RecordCreate, RelaunchFails, Delete, RemoveFails,
         CreateResource, EditSpec, DeleteResource, CooldownElapses, Crash, RemoveByHand
<1>7. QED
  BY <1>3, <1>5, <1>6 DEF Untouched, NothingInstalled, IsInstalled, IsFree

(* UntouchedInv is inductive relative to IInv and the creation's.           *)
LEMMA UntouchedStep ==
    ASSUME IInv, KnownUIDs, CreationInv, UntouchedInv, [Next]_vars,
           CreateResource => Untouched
    PROVE  UntouchedInv'
<1>1. ASSUME Uncreated' PROVE Untouched'
  <2>1. Untouched
    BY <1>1, UncreatedMoves DEF UntouchedInv
  <2>2. CASE startBackgroundDeployment \/ Relaunch
    <3>1. cr # None /\ cr.finalizer
      BY <2>2 DEF startBackgroundDeployment, Relaunch, CreationInv, IInv, TypeOK,
         PassInv, Creating
    <3>2. api \in Resource /\ api # None /\ api.uid = cr.uid
      BY <3>1, HoldsResource
    <3>3. api' = api
      BY <2>2 DEF startBackgroundDeployment, Relaunch, Created
    <3>4. api.created \notin NotCreated
      BY <2>2, <3>1, <3>2 DEF startBackgroundDeployment, Relaunch, CreationInv, IInv,
         PassInv, Creating, NotCreated
    <3>5. pc' \in {"created", "status"} /\ (pc' = "status" => cr'.created = "succeeded")
      BY <2>2 DEF startBackgroundDeployment, Relaunch, Created, Goto, CreationInv
    <3>6. QED
      BY <1>1, <3>3, <3>4, <3>5 DEF Uncreated, UncreatedCopy, Creating, NotCreated
  <2>3. QED
    BY <2>1, <2>2, UntouchedMoves
<1>2. ASSUME cr' # None, pc' \notin Creating
      PROVE  cr'.created # "pending"
  BY <1>2, CopyMoves DEF BeginPass, UntouchedInv
<1>3. QED
  BY <1>1, <1>2 DEF UntouchedInv

(* A resource that finds an untouched cluster, the first or one created
   again under its name, is updated only after its Create has succeeded:
   what Observe finds was deployed for it.                                 *)
THEOREM CreationAdoptsNothing == Spec /\ CreatedUntouched => UpdatesOnlyCreated
<1> DEFINE Inv == KnownUIDs /\ CreationInv /\ UntouchedInv
<1>1. Init => Inv
  <2> SUFFICES ASSUME Init PROVE UntouchedInv
    BY InitCreation
  <2>1. QED
    BY DEF UntouchedInv, Uncreated, UncreatedCopy, Init
<1>2. IInv /\ Inv /\ [Next]_vars /\ [CreateResource => Untouched]_vars
      => UpdateFollowsCreation /\ Inv'
  <2> SUFFICES ASSUME IInv, Inv, [Next]_vars, [CreateResource => Untouched]_vars
               PROVE  UpdateFollowsCreation /\ Inv'
    OBVIOUS
  <2>1. UpdateFollowsCreation
    BY FollowsStep
  <2>2. CreateResource => Untouched
    BY ConstantsAssumption DEF CreateResource, vars, passVars, IInv, TypeOK
  <2>3. QED
    BY <2>1, <2>2, KnownStep, CreationStep, UntouchedStep
<1>3. IInv /\ Inv /\ [Next]_vars /\ [CreateResource => Untouched]_vars
      => [UpdateFollowsCreation]_vars /\ Inv'
  BY <1>2
<1> HIDE DEF Inv
<1>4. QED
  BY Inductive, <1>1, <1>3, PTL DEF Spec, UpdatesOnlyCreated, CreatedUntouched

(* Before the first resource nothing is deployed, so a cluster that was
   empty is so when a resource is created that is created once.            *)
LEMMA FirstStep ==
    ASSUME IInv, FirstInv, [Next]_vars
    PROVE  FirstInv'
<1> SUFFICES ASSUME lastUID' = 0 PROVE api' = None /\ cr' = None /\ Untouched'
  BY DEF FirstInv
<1>1. MaxUID \in Nat /\ lastUID \in 0..MaxUID
  BY ConstantsAssumption DEF IInv, TypeOK
<1>2. ~CreateResource /\ lastUID = 0
  BY <1>1, UIDMoves
<1>3. api = None /\ cr = None /\ Untouched
  BY <1>2 DEF FirstInv
<1>4. api' = None
  BY <1>2, <1>3, UIDMoves
<1>5. cr' = None
  BY <1>3, CopyMoves DEF BeginPass
<1>6. ~startBackgroundDeployment /\ ~Relaunch
  BY <1>3 DEF startBackgroundDeployment, Relaunch, IInv, TypeOK
<1>7. QED
  BY <1>3, <1>4, <1>5, <1>6, UntouchedMoves

LEMMA FirstIsUntouched ==
    ASSUME MaxUID = 1
    PROVE  Spec /\ NothingInstalled => CreatedUntouched
<1>1. Init /\ NothingInstalled => FirstInv
  BY DEF FirstInv, Untouched, Init, FreeSlot, IsFree
<1>2. IInv /\ FirstInv /\ [Next]_vars => FirstInv' /\ [CreateResource => Untouched]_vars
  <2> SUFFICES ASSUME IInv, FirstInv, [Next]_vars
               PROVE  FirstInv' /\ (CreateResource => Untouched)
    OBVIOUS
  <2>1. CreateResource => lastUID = 0
    BY DEF CreateResource, IInv, TypeOK
  <2>2. QED
    BY <2>1, FirstStep DEF FirstInv
<1>3. QED
  BY Inductive, <1>1, <1>2, PTL DEF Spec, CreatedUntouched

(* In a cluster without packages the first resource finds one.             *)
THEOREM FirstCreationAdoptsNothing ==
    ASSUME MaxUID = 1
    PROVE  Spec /\ NothingInstalled => UpdatesOnlyCreated
BY FirstIsUntouched, CreationAdoptsNothing, PTL

(* Together: there Create finds nothing to cancel and launches alone, and
   the order of deployments is kept but for the two races, however often
   the resource is created again and whatever a restart cuts off.          *)
THEOREM CreationIsAlone ==
    Spec /\ CreatedUntouched => CreateLaunchesAlone /\ OrderKept
<1>1. IInv /\ KnownUIDs /\ CreationInv => CreateIsAlone
  BY CreateFindsNothing
<1>2. QED
  BY Inductive, CreationAdoptsNothing, CreationInductive, OrderIsKept, <1>1, PTL
     DEF CreateLaunchesAlone

----------------------------------------------------------------------------
(* ZarfPackage implements CircuitBreaker.                                  *)

(* The breaker of a copy is the stored one, or a reset of one that is not  *)
(* cooling down.                                                           *)
SameBreaker(c, a) == c.failures = a.failures /\ c.lastFailure = a.lastFailure

ResetBreaker(c) == c.failures = 0 /\ c.lastFailure = "none"

CopyInv ==
    cr # None /\ fresh =>
        SameBreaker(cr, api) \/ (~coolingDown(api) /\ ResetBreaker(cr))

----------------------------------------------------------------------------
(* What Observe does to the breaker of the copy.                           *)

LEMMA ResetResets ==
    ASSUME NEW c \in Resource
    PROVE  ResetBreaker(resetCircuitBreakerState(c))
BY DEF Resource, ResetBreaker, resetCircuitBreakerState

LEMMA ObserveResets ==
    ASSUME NEW c \in Resource
    PROVE  \/ SameBreaker(Observe(c).cr, c)
           \/ ~coolingDown(c) /\ ResetBreaker(Observe(c).cr)
<1> DEFINE m == Resumed(c)
           n == [m EXCEPT !.extName = getPackageName(m)]
           r == resetCircuitBreakerState(n)
<1>1. CASE coolingDown(c)
  <2>1. Observe(c).cr = c
    BY <1>1 DEF Observe, Observed
  <2>2. QED
    BY <2>1 DEF SameBreaker
<1>2. CASE ~coolingDown(c)
  <2>1. m \in Resource /\ (SameBreaker(m, c) \/ ResetBreaker(m))
    BY ResetKeeps, ResetResets DEF Resumed, SameBreaker
  <2> HIDE DEF m
  <2>2. n \in Resource /\ (SameBreaker(n, c) \/ ResetBreaker(n))
    BY <2>1, NameKeeps, PackageNameType DEF SameBreaker, ResetBreaker, Resource
  <2> HIDE DEF n
  <2>3. ResetBreaker(r)
    BY <2>2, ResetResets
  <2> HIDE DEF r
  <2>4. Observe(c) \in {[cr |-> n, pc |-> "update"], [cr |-> n, pc |-> "create"],
                        [cr |-> r, pc |-> "uptodate"]}
    BY <1>2 DEF Observe, Observed, observeInstallation, handleInstalled,
                handleNotInstalled, m, n, r
  <2>5. Observe(c).cr \in {n, r}
    BY <2>4
  <2>6. QED
    BY <1>2, <2>2, <2>3, <2>5
<1>3. QED
  BY <1>1, <1>2

(* Assigning another field leaves the breaker and the owner alone.         *)
LEMMA OtherFields ==
    ASSUME NEW c \in Resource
    PROVE  /\ \A b : LET x == [c EXCEPT !.deleting = b]
                    IN  x.uid = c.uid /\ SameBreaker(x, c)
           /\ \A s : LET x == [c EXCEPT !.spec = s]
                    IN  x.uid = c.uid /\ SameBreaker(x, c)
BY DEF Resource, SameBreaker

LEMMA WrittenBreaker ==
    ASSUME NEW a \in Resource, NEW c \in Resource
    PROVE  SameBreaker(StatusWritten(a, c), c)
BY DEF Resource, SameBreaker, StatusWritten

(* Half an hour makes the last failure old in the copy and in the store.   *)
LEMMA AgedBreaker ==
    ASSUME NEW c \in Resource
    PROVE  /\ Aged(c).failures = c.failures
           /\ Aged(c).lastFailure = IF c.lastFailure = "recent" THEN "old"
                                    ELSE c.lastFailure
           /\ Aged(c) # None
BY AgedKeeps, NoneAssumption DEF Aged, Resource

----------------------------------------------------------------------------
(* CopyInv is inductive relative to IInv.                                  *)
LEMMA CopyStep ==
    ASSUME IInv, CopyInv, [Next]_vars
    PROVE  CopyInv'
<1>1. CASE UNCHANGED <<api, cr, fresh>>
  BY <1>1 DEF CopyInv, SameBreaker, ResetBreaker, coolingDown
<1>2. CASE cr' = None \/ fresh' = FALSE
  BY <1>2 DEF CopyInv
<1>3. CASE cr' = api'
  BY <1>3 DEF CopyInv, SameBreaker
<1>4. CASE ObservePass
  <2>1. cr \in Resource /\ (fresh => cr = api)
    BY <1>4, NoneAssumption DEF IInv, TypeOK, PassInv, ObservePass
  <2>2. cr' = Observe(cr).cr /\ api' = api /\ fresh' = fresh
    BY <1>4 DEF ObservePass
  <2>3. QED
    BY <2>1, <2>2, ObserveResets DEF CopyInv, coolingDown, SameBreaker, ResetBreaker
<1>5. CASE ObserveFails
  <2>1. cr \in Resource /\ (fresh => cr = api) /\ ~coolingDown(cr)
    BY <1>5, NoneAssumption DEF IInv, TypeOK, PassInv, ObserveFails
  <2>2. cr' = Resumed(cr) /\ api' = api /\ fresh' = fresh
    BY <1>5 DEF ObserveFails
  <2>3. SameBreaker(Resumed(cr), cr) \/ ResetBreaker(Resumed(cr))
    BY <2>1, ResetResets DEF Resumed, SameBreaker
  <2>4. QED
    BY <2>1, <2>2, <2>3 DEF CopyInv, coolingDown, SameBreaker, ResetBreaker
<1>6. CASE CreateSkips \/ startBackgroundDeployment
  <2>1. cr \in Resource /\ cr # None
    BY <1>6, NoneAssumption DEF IInv, TypeOK, CreateSkips, startBackgroundDeployment
  <2>2. cr' = [cr EXCEPT !.extName = getPackageName(cr)] /\ api' = api /\ fresh' = fresh
    BY <1>6 DEF CreateSkips, startBackgroundDeployment, Created
  <2>3. cr'.failures = cr.failures /\ cr'.lastFailure = cr.lastFailure
    BY <2>1, <2>2 DEF Resource
  <2>4. QED
    BY <2>1, <2>2, <2>3 DEF CopyInv, coolingDown, SameBreaker, ResetBreaker
<1>7. CASE CooldownElapses
  <2>1. api' = Aged(api) /\ cr' = Aged(cr) /\ fresh' = fresh
    BY <1>7 DEF CooldownElapses
  <2>2. CASE cr # None /\ fresh
    <3>1. cr \in Resource /\ api \in Resource
      BY <2>2 DEF IInv, TypeOK, PassInv
    <3>2. ~coolingDown(api')
      BY <2>1, <3>1, AgedKeeps
    <3>3. SameBreaker(cr', api') \/ ResetBreaker(cr')
      BY <2>1, <2>2, <3>1, AgedBreaker DEF CopyInv, SameBreaker, ResetBreaker
    <3>4. QED
      BY <3>2, <3>3 DEF CopyInv, SameBreaker, ResetBreaker, coolingDown
  <2>3. CASE cr = None
    BY <2>1, <2>3 DEF Aged, CopyInv
  <2>4. QED
    BY <2>1, <2>2, <2>3 DEF CopyInv
<1>8. ASSUME NEW new, mutateStatus(new), cr' = cr
      PROVE  CopyInv'
  BY <1>1, <1>2, <1>8 DEF mutateStatus
<1>9. ASSUME NEW d \in Deployments, handleDeploymentError(d) \/ handleDeploymentSuccess(d)
      PROVE  CopyInv'
  BY <1>8, <1>9 DEF handleDeploymentError, handleDeploymentSuccess, passVars
<1>10. CASE AddFinalizer \/ SetCreatePending
  BY <1>2, <1>3, <1>10 DEF AddFinalizer, SetCreatePending, EndPass
<1>11. CASE UNCHANGED vars
  BY <1>1, <1>11 DEF vars
<1>12. QED
  BY <1>1, <1>2, <1>3, <1>4, <1>5, <1>6, <1>7, <1>9, <1>10, <1>11
     DEF Next, System, Pass, Background, Packager, DeployFault, User, Disturbance,
         Fault, BeginPass, ConnectFails, ObserveDeletionPass, ObserveDeletionFails,
         WriteStatus, RemoveFinalizer, CreateFails, RecordCreate, Update, Relaunch,
         RelaunchFails, Delete, Remove, RemoveFails, Goto, EndPass, RemoveByHand, Crash,
         StartDeploy, LoadFails, LoadCancelled, executePackageDeployment,
         PackagerRecords, PackagerReturns, DeployTimesOut, DeployCancelled, ResultLost,
         Return, passVars, CreateResource, EditSpec, DeleteResource

----------------------------------------------------------------------------
(* How the deployments whose result is to come change.                     *)

(* A step launches one deployment, or only loses some.                     *)
LEMMA RunningStep ==
    ASSUME IInv, [Next]_vars
    PROVE  \/ Running' \subseteq Running
           \/ \E d \in Deployments : d \notin Running /\ Running' = Running \cup {d}
<1>1. CASE startBackgroundDeployment \/ Relaunch
  <2>1. PICK d \in Deployments : launchDeploymentGoroutine(d)
    BY <1>1 DEF startBackgroundDeployment, Relaunch
  <2>2. d \notin Running /\ deploy' = [deploy EXCEPT ![d] = Slot(cr)]
    BY <2>1 DEF launchDeploymentGoroutine, IsFree, Running, Reporting
  <2>3. Slot(cr).pc = "launched"
    BY DEF Slot
  <2>4. Running' = Running \cup {d}
    BY <2>2, <2>3 DEF IInv, TypeOK, Running, Reporting
  <2>5. QED
    BY <2>2, <2>4
<1>2. CASE UNCHANGED deploy
  BY <1>2 DEF Running
<1>3. ASSUME NEW u \in UIDs, cancel(u)
      PROVE  Running' \subseteq Running
  BY <1>3, CancelKeeps DEF Running, IInv
<1>4. CASE Update \/ Delete
  <2>1. cr.uid \in UIDs
    BY <1>4 DEF IInv, TypeOK, Update, Delete, Resource
  <2>2. QED
    BY <1>2, <1>3, <1>4, <2>1 DEF Update, Delete
<1>5. CASE Crash
  BY <1>5 DEF Crash, FreeSlot, Running, Reporting
<1>6. ASSUME NEW e \in Deployments, NEW l, At(e, l),
             l \in Reporting => deploy[e].pc \in Reporting
      PROVE  Running' \subseteq Running
  BY <1>6 DEF At, Running, IInv, TypeOK, Goroutine
<1>7. ASSUME NEW e \in Deployments,
              \/ StartDeploy(e) \/ LoadFails(e) \/ LoadCancelled(e)
              \/ executePackageDeployment(e) \/ DeployTimesOut(e)
              \/ DeployCancelled(e) \/ handleDeploymentError(e)
              \/ handleDeploymentSuccess(e) \/ ResultLost(e)
      PROVE  Running' \subseteq Running
  BY <1>6, <1>7 DEF Reporting, StartDeploy, LoadFails, LoadCancelled,
         executePackageDeployment, DeployTimesOut, DeployCancelled,
         handleDeploymentError, handleDeploymentSuccess, ResultLost
<1>8. ASSUME NEW e \in Deployments, NEW r \in {"succeeded", "failed"},
             PackagerReturns(e, r)
      PROVE  Running' \subseteq Running
  BY <1>8 DEF PackagerReturns, Freed, FreeSlot, Running, Reporting, IInv, TypeOK, Goroutine
<1>9. ASSUME NEW e \in Deployments, Return(e)
      PROVE  Running' \subseteq Running
  BY <1>9 DEF Return, Returned, FreeSlot, Running, Reporting, IInv, TypeOK, Goroutine
<1>10. CASE UNCHANGED vars
  BY <1>2, <1>10 DEF vars
<1>11. QED
  BY <1>1, <1>2, <1>4, <1>5, <1>7, <1>8, <1>9, <1>10
     DEF Next, System, Pass, Background, Packager, DeployFault, User, Disturbance,
         Fault, BeginPass, ConnectFails, ObservePass, ObserveFails,
         ObserveDeletionPass, ObserveDeletionFails, AddFinalizer, WriteStatus,
         RemoveFinalizer, SetCreatePending, CreateSkips, CreateFails,
         RecordCreate, RelaunchFails, Remove, RemoveFails, CreateResource, EditSpec,
         DeleteResource, CooldownElapses, RemoveByHand, PackagerRecords

(* A goroutine that reports a result leaves, alone.                        *)
LEMMA ReportStep ==
    ASSUME IInv, NEW d \in Deployments,
           handleDeploymentError(d) \/ handleDeploymentSuccess(d)
    PROVE  d \in Running /\ Running' = Running \ {d}
BY DEF handleDeploymentError, handleDeploymentSuccess, At, Running, Reporting, IInv,
       TypeOK, Goroutine

----------------------------------------------------------------------------
(* Every step is one of the breaker's.                                     *)

(* Nothing written: the deployments may change.                            *)
LEMMA UnwrittenStep ==
    ASSUME IInv, [Next]_vars, api' = api
    PROVE  Breaker!Next \/ UNCHANGED Breaker!vars
<1>1. CASE Running' \subseteq Running
  <2>1. Breaker!Lose(Running \ Running')
    <3>1. Running' = Running \ (Running \ Running')
      BY <1>1
    <3>2. QED
      BY <3>1 DEF Breaker!Lose
  <2>2. Running \ Running' \in SUBSET Deployments
    BY DEF Running
  <2>3. QED
    BY <2>1, <2>2 DEF Breaker!Next
<1>2. ASSUME NEW d \in Deployments, d \notin Running, Running' = Running \cup {d}
      PROVE  Breaker!Next
  BY <1>2 DEF Breaker!Next, Breaker!Launch
<1>3. QED
  BY <1>1, <1>2, RunningStep

(* The stored breaker and the deployments stay as they are.                *)
LEMMA SameStep ==
    ASSUME api # None, api' # None, api'.uid = api.uid, SameBreaker(api', api),
           Running' = Running
    PROVE  UNCHANGED Breaker!vars
BY DEF Breaker!vars, SameBreaker

(* The resource is gone. *)
LEMMA GoneStep ==
    ASSUME api \in Resource, api' = None, Running' = Running
    PROVE  Breaker!Next
<1>1. api # None /\ api.uid # None
  BY NoneAssumption DEF Resource
<1>2. Breaker!Replace
  BY <1>1 DEF Breaker!Replace, Breaker!Closed
<1>3. QED
  BY <1>2 DEF Breaker!Next

(* Something written: one case for each of the actions that write.         *)
LEMMA WrittenStep ==
    ASSUME IInv, BreakerConsistent, CopyInv, [Next]_vars, api' # api
    PROVE  Breaker!Next \/ UNCHANGED Breaker!vars
<1>1. CASE CreateResource
  <2>1. PICK s \in Specs : api' = NewResource(lastUID + 1, s)
    BY <1>1 DEF CreateResource
  <2>2. api = None /\ lastUID + 1 \in UIDs /\ Running' = Running
    BY <1>1, ConstantsAssumption DEF CreateResource, Running, IInv, TypeOK, UIDs
  <2>3. api' # None /\ lastUID + 1 # None
    BY <2>1, <2>2, NewResourceType, NoneAssumption
  <2>4. api'.uid = lastUID + 1 /\ ResetBreaker(api')
    BY <2>1 DEF NewResource, ResetBreaker
  <2>5. Breaker!Replace
    BY <2>2, <2>3, <2>4 DEF Breaker!Replace, Breaker!Closed, ResetBreaker
  <2>6. QED
    BY <2>5 DEF Breaker!Next
<1>2. CASE EditSpec
  <2>1. api \in Resource /\ api # None /\ Running' = Running
    BY <1>2 DEF EditSpec, IInv, TypeOK, Running
  <2>2. PICK s \in Specs : api' = [api EXCEPT !.spec = s]
    BY <1>2 DEF EditSpec
  <2>3. api' # None
    BY <2>1, <2>2, ResourceFields, NoneAssumption
  <2>4. api'.uid = api.uid /\ SameBreaker(api', api)
    BY <2>1, <2>2, OtherFields
  <2>5. QED
    BY <2>1, <2>3, <2>4, SameStep
<1>3. CASE DeleteResource
  <2>1. api \in Resource /\ api # None /\ Running' = Running
    BY <1>3 DEF DeleteResource, IInv, TypeOK, Running
  <2>2. CASE api' = None
    BY <2>1, <2>2, GoneStep
  <2>3. CASE api' = [api EXCEPT !.deleting = TRUE]
    <3>1. api' # None
      BY <2>1, <2>3, ResourceFields, NoneAssumption
    <3>2. api'.uid = api.uid /\ SameBreaker(api', api)
      BY <2>1, <2>3, OtherFields
    <3>3. QED
      BY <2>1, <3>1, <3>2, SameStep
  <2>4. QED
    BY <1>3, <2>2, <2>3 DEF DeleteResource
<1>4. CASE CooldownElapses
  <2>1. api' = Aged(api) /\ Running' = Running
    BY <1>4 DEF CooldownElapses, Running
  <2>2. api \in Resource /\ api # None
    BY <2>1 DEF IInv, TypeOK, Aged
  <2>3. /\ api' # None /\ api'.failures = api.failures /\ api'.uid = api.uid
        /\ api'.lastFailure = IF api.lastFailure = "recent" THEN "old" ELSE api.lastFailure
    BY <2>1, <2>2, AgedBreaker, AgedKeeps DEF Kept
  <2>4. CASE api.lastFailure = "recent"
    <3>1. Breaker!CoolDown
      BY <2>1, <2>2, <2>3, <2>4 DEF Breaker!CoolDown
    <3>2. QED
      BY <3>1 DEF Breaker!Next
  <2>5. CASE api.lastFailure # "recent"
    BY <2>1, <2>2, <2>3, <2>5, SameStep DEF SameBreaker
  <2>6. QED
    BY <2>4, <2>5
<1>5. CASE AddFinalizer \/ SetCreatePending \/ RecordCreate
  <2>1. cr \in Resource /\ cr # None /\ Running' = Running
    BY <1>5, NoneAssumption DEF AddFinalizer, SetCreatePending, RecordCreate, IInv,
       TypeOK, Running
  <2>2. api \in Resource /\ api # None
    BY <1>5, <2>1, NoneAssumption DEF AddFinalizer, SetCreatePending, RecordCreate, IInv,
       TypeOK, PassInv, Creating
  <2>3. cr.extName \in Names
    BY <2>1 DEF Resource
  <2>4. ASSUME NEW k \in Creation, api' = [api EXCEPT !.created = k, !.extName = cr.extName]
        PROVE  UNCHANGED Breaker!vars
    <3>1. api' \in Resource /\ api'.uid = api.uid /\ SameBreaker(api', api)
      BY <2>2, <2>3, <2>4 DEF Resource, SameBreaker
    <3>2. QED
      BY <2>1, <2>2, <3>1, SameStep, NoneAssumption
  <2>5. CASE AddFinalizer
    <3>1. api' = [api EXCEPT !.finalizer = TRUE, !.extName = cr.extName]
      BY <2>5 DEF AddFinalizer
    <3>2. api' \in Resource /\ api'.uid = api.uid /\ SameBreaker(api', api)
      BY <2>2, <2>3, <3>1 DEF Resource, SameBreaker
    <3>3. QED
      BY <2>1, <2>2, <3>2, SameStep, NoneAssumption
  <2>6. QED
    BY <1>5, <2>4, <2>5 DEF SetCreatePending, RecordCreate, Creation
<1>6. CASE WriteStatus
  <2>1. cr \in Resource /\ cr # None /\ fresh /\ Running' = Running
        /\ api' = StatusWritten(api, cr)
    BY <1>6, NoneAssumption DEF WriteStatus, IInv, TypeOK, PassStates, Running
  <2>2. api \in Resource /\ api # None
    BY <2>1 DEF IInv, TypeOK, PassInv
  <2>3. /\ api' # None /\ api'.uid = api.uid
        /\ api'.failures = cr.failures /\ api'.lastFailure = cr.lastFailure
    BY <2>1, <2>2, StatusWrittenKeeps, WrittenBreaker, NoneAssumption DEF Kept, SameBreaker
  <2>4. CASE SameBreaker(cr, api)
    BY <2>1, <2>2, <2>3, <2>4, SameStep DEF SameBreaker
  <2>5. CASE ~coolingDown(api) /\ ResetBreaker(cr)
    <3>1. ~(api.failures = MaxConsecutiveFailures /\ api.lastFailure = "recent")
      BY <2>2, <2>5 DEF coolingDown, BreakerConsistent, Consistent
    <3>2. Breaker!Resume
      BY <2>1, <2>2, <2>3, <2>5, <3>1 DEF Breaker!Resume, Breaker!Cooling, Breaker!Closed,
         ResetBreaker
    <3>3. QED
      BY <3>2 DEF Breaker!Next
  <2>6. QED
    BY <2>1, <2>4, <2>5 DEF CopyInv
<1>7. CASE RemoveFinalizer
  <2>1. api \in Resource /\ api' = None /\ Running' = Running
    BY <1>7 DEF RemoveFinalizer, IInv, TypeOK, Running
  <2>2. QED
    BY <2>1, GoneStep
<1>8. ASSUME NEW d \in Deployments, handleDeploymentError(d)
      PROVE  Breaker!Next
  <2>1. api \in Resource /\ api # None /\ api' = applyDeploymentFailureStatus(api)
    BY <1>8 DEF handleDeploymentError, mutateStatus, IInv, TypeOK
  <2>2. api' # None /\ api'.uid = api.uid
    BY <2>1, FailureKeeps, NoneAssumption DEF Kept
  <2>3. /\ api'.failures = IF api.failures < MaxConsecutiveFailures
                           THEN api.failures + 1 ELSE MaxConsecutiveFailures
        /\ api'.lastFailure = "recent"
    BY <2>1, ConstantsAssumption DEF applyDeploymentFailureStatus, Resource
  <2>4. Breaker!Fail(d)
    BY <1>8, <2>1, <2>2, <2>3, ReportStep, NoneAssumption DEF Breaker!Fail, Resource
  <2>5. QED
    BY <2>4 DEF Breaker!Next
<1>9. ASSUME NEW d \in Deployments, handleDeploymentSuccess(d)
      PROVE  Breaker!Next
  <2> DEFINE h == computeSpecHash[deploy[d].spec]
  <2>1. h \in Hashes
    BY <1>9, ConstantsAssumption DEF IInv, GoroutineInv, handleDeploymentSuccess
  <2>2. api \in Resource /\ api # None /\ api' = applyDeploymentSuccessStatus(api, h)
    BY <1>9 DEF handleDeploymentSuccess, mutateStatus, IInv, TypeOK
  <2> HIDE DEF h
  <2>3. api' # None /\ api'.uid = api.uid
    BY <2>1, <2>2, SuccessKeeps, NoneAssumption DEF Kept
  <2>4. ResetBreaker(api')
    <3>1. resetCircuitBreakerState(api) \in Resource
          /\ ResetBreaker(resetCircuitBreakerState(api))
      BY <2>2, ResetKeeps, ResetResets
    <3>2. QED
      BY <2>2, <3>1 DEF applyDeploymentSuccessStatus, ResetBreaker, Resource
  <2>5. Breaker!Succeed(d)
    BY <1>9, <2>2, <2>3, <2>4, ReportStep, NoneAssumption
       DEF Breaker!Succeed, Breaker!Closed, ResetBreaker, Resource
  <2>6. QED
    BY <2>5 DEF Breaker!Next
<1>10. QED
  BY <1>1, <1>2, <1>3, <1>4, <1>5, <1>6, <1>7, <1>8, <1>9, Writers

LEMMA BreakerNext ==
    IInv /\ BreakerConsistent /\ CopyInv /\ [Next]_vars => [Breaker!Next]_(Breaker!vars)
<1>1. CASE api' = api
  BY <1>1, UnwrittenStep
<1>2. CASE api' # api
  BY <1>2, WrittenStep
<1>3. QED
  BY <1>1, <1>2

(* The status of a resource behaves as one circuit breaker: deployments,
   passes with stale copies, restarts, edits and time never lose a failure
   that was written and never close a breaker that cools down, except by a
   success or by the end of the resource.                                  *)
THEOREM ImplementsCircuitBreaker == Spec => BreakerImplemented
<1>1. Init => CopyInv
  BY DEF Init, CopyInv
<1>2. IInv /\ CopyInv /\ [Next]_vars => CopyInv'
  BY CopyStep
<1>3. Init => Breaker!Init
  BY DEF Init, Breaker!Init, Running, Reporting, FreeSlot
<1>4. QED
  BY Inductive, BreakerIsConsistent, <1>1, <1>2, <1>3, BreakerNext, PTL
     DEF Spec, BreakerImplemented, Breaker!Spec

============================================================================
