# A formal model of provider-zarf

TLA+ modules, TLC configurations and TLAPS proofs about
`crossplane/provider-zarf`: a Crossplane provider that deploys Zarf packages
from `ZarfPackage` resources. Paths below are relative to the repository
unless they are files of this directory.

| modules | what they are |
|---|---|
| `ZarfPackage` | the controller, its deployment goroutines and the packager they call |
| `CircuitBreaker`, `ZarfPackageRefinement` | what the circuit breaker promises, and the mapping that shows the controller to keep it |
| `ZarfClient` | concurrent calls of `client.Deploy`, with the temporary `DOCKER_CONFIG` |
| `CredentialLease` | what `installDockerConfig` promises; `ZarfClient` implements it |
| `Kubeconfig` | the in-cluster kubeconfig and its `sync.Once` |
| `SpecHash` | drift detection: `computeSpecHash` against what a deployment is given |
| `Architecture` | the detection of the cluster's architecture |
| `PackageNames` | the two extractions of a package's name, and the passes that use them |
| `RegistryAuth` | from a secret to a Docker configuration |
| `Text` | Go's `strings` functions on texts that are sequences of tokens |
| `MC*` and `*.cfg` | small instances for TLC |
| `TextProofs` | what the operators of `Text` return, and how texts put together are taken apart, for texts of any length |
| `*Proofs` | theorems about the module of that name, for every value of the constants |

`PROJECT.json` is the inventory in machine-readable form: components, runs,
mutants, the map from definitions to source lines, findings, hazards, theorems.

## The system

The program is one process, the provider's pod, in which controller-runtime
runs a worker that calls Crossplane's *managed reconciler*, which calls the
`external` client of `internal/controller/zarfpackage/zarfpackage.go`.

| component | state it keeps | operations | what makes it correct |
|---|---|---|---|
| ZarfPackage controller (`zarfpackage.go`) | the resource in the API server; an in-memory copy for the length of a pass | `Connect`, `Observe`, `Create`, `Update`, `Delete` | deploys what the spec says, once; deletion completes and leaves nothing behind |
| deployment tracker (`zarfpackage.go:106-152`) | a map from UID to a cancel function, under a mutex | `track`, `untrack`, `cancel` | holds a deployment exactly while it can be cancelled |
| deployment goroutines (`zarfpackage.go:765-843`) | their context, UID, key and options | launch, `client.Deploy`, `handleDeploymentError`, `handleDeploymentSuccess` | at most one works for a resource; results reach the resource they belong to |
| circuit breaker (`zarfpackage.go:96-100, 995-1110`) | three status fields: failures, active, last failure | trip, cool down, reset | trips at the limit, always cools down, no deployments meanwhile |
| Zarf client (`internal/zarfclient/zarfclient.go`) | `DOCKER_CONFIG` and its mutex, the kubeconfig's `sync.Once` | `IsInstalled`, `Deploy`, `Remove` | one deployment's credentials are not another's; a failed set-up is reported |
| temporary `DOCKER_CONFIG` (`zarfclient.go:660`) | an environment variable of the process, a mutex, directories | install, clean up | restored whenever the mutex is free, whatever failed |
| in-cluster kubeconfig (`zarfclient.go:231`) | a file, `KUBECONFIG`, a `sync.Once` and the error it keeps | `ensureInClusterConfig` | ready means configured; all callers get one answer |
| spec hash (`zarfpackage.go:1112`) | none | `computeSpecHash` | equal exactly for specs that deploy the same |
| architecture detection (`zarfpackage.go:557`) | none | count nodes, take the majority | nothing outvotes the answer; deterministic |
| names from sources (`zarfpackage.go:1206`, `zarfclient.go:703`) | none | two extractions of a package name, one of a host | they agree, also with what the registry calls the package |
| registry credentials (`zarfpackage.go:634`) | none | find the secret, build a docker config | the right secret, the right host, no silent fallback |
| ProviderConfig controller, entry point, API types | none of their own | wiring and generated code | not modelled |

How they interact: a pass reads the resource, works on its copy and writes it
back under optimistic locking; `Create` and `Update` launch goroutines that
outlive the pass and write the status themselves (`mutateStatus`: get by name,
change, update, retry); goroutines and passes share the tracker; everybody
shares the cluster, where the packager records what is deployed in a secret
for each package, and people can remove packages by hand.

What is hard: a pass acts on a copy that goroutines and users change
meanwhile; cancellation is asynchronous and only *hoped* to be over after a
sleep of 500ms; `packager.Deploy` may ignore its context; the process can stop
between any two steps; the environment of the process is shared by all
deployments; and the resource can be deleted and created again under
its name while a goroutine of the old one is still at work. `PROJECT.json`
lists each hazard at the line where it bites.

## The model: `ZarfPackage.tla`

One resource (its name is fixed; `MaxUID` bounds how often it is created), the
worker's pass, a set `Deployments` of goroutine slots, and the cluster's
record of deployed packages.

| variable | code |
|---|---|
| `api` | the stored resource: UID, deletion timestamp, finalizer, external name, latest external-create annotation, `spec.forProvider`, hash, failures, breaker, last failure |
| `pc`, `cr`, `fresh` | where the pass is, its copy, and whether the copy's `resourceVersion` is still the stored one |
| `tracker` | `globalDeploymentTracker.deployments` |
| `deploy` | each goroutine: where it is, its UID and spec, whether its context was cancelled |
| `packager` | `packager.Deploy` inside each goroutine (`zarfclient.go:593`): not running, running, or running with its package recorded |
| `content` | for each package name the spec deployed last under it |

A pass is a chain of actions, split where others may interfere:
`BeginPass` (read) - `ConnectFails`, `ObservePass` / `ObserveFails` or
`ObserveDeletionPass` / `ObserveDeletionFails` - `AddFinalizer` - then
`SetCreatePending`, `CreateSkips` / `startBackgroundDeployment` /
`CreateFails`, `RecordCreate`; or `Update` (up to the sleep), `Relaunch` /
`RelaunchFails`; or `Delete` (up to the sleep), `Remove` / `RemoveFails`; or
`RemoveFinalizer` - and `WriteStatus`. A goroutine goes from
`launchDeploymentGoroutine` through `StartDeploy` (`track`), `LoadFails` /
`LoadCancelled` / `executePackageDeployment`, then `PackagerReturns`,
`DeployTimesOut` or `DeployCancelled`, `handleDeploymentError` /
`handleDeploymentSuccess` / `ResultLost`, to `Return` (the deferred `untrack`
and `cancel`). The helper operators have the names of the Go functions.

What the reconciler, the API server, the packager and people do is not in this
repository; their actions are marked external in `PROJECT.json` and modelled
from how `zarfpackage.go` uses them: a status update writes the status only, a
full update annotations and finalizers only, both fail on a stale copy; the
annotations after `Create` are written to the latest version; a resource whose
latest annotation is *pending* is not reconciled.

Abstractions, and why they are sound for the properties:

- Phase, messages, conditions, events and `lastDeployTime` are written and
  never read by the controller. They are left out.
- A spec is an opaque value; `extractPackageName` and `computeSpecHash` are
  constant functions of it, which `PackageNames` and `SpecHash` look into.
  Every source is taken to contain a name: the
  fallback to the external name for a source that ends in a slash is not
  modelled.
- `lastFailureTime` is absent, recent (less than 30 minutes ago) or old;
  `CooldownElapses` makes everything recent old.
- The retry loop of `mutateStatus` is one atomic write or, when the API server
  fails, `ResultLost`; a conflict is retried by the code, so what is finally
  written is a function of the latest version.
- When all slots are taken, a launch waits: the number of slots bounds how
  many deployments are alive at once, and the code has no such bound.
- Reads at the start of a pass see the stored resource. controller-runtime
  reads a cache, which can lag. The copy's staleness *after* the read is
  modelled: a pass that reads an old version is one that read it in time and
  was slow since, as far as one worker is concerned.

Nothing is assumed of the speed of passes and goroutines. A goroutine may call
`track()` after a later pass has called `cancel()`; one that was cancelled may
return long after the 500ms the pass sleeps; `packager.Deploy` may go on when its
context has ended.

## The other models

How the models fit together: `ZarfPackage` takes names and hashes as constant
functions and one deployment as a few steps with any outcome. `PackageNames` and
`SpecHash` look into those functions and take a pass and a deployment as one
step. `ZarfClient` looks into the steps of a deployment, for several at once,
and takes the kubeconfig as a step that may fail; `Kubeconfig` looks into that
step. `RegistryAuth` and `Architecture` compute two of the options a deployment
is given.

**`ZarfClient`**: a slot in `Calls` is a call of `client.Deploy` under way.
`pc` is the statement it is at (`lock`, `mkdir`, `write`, `setenv` inside
`installDockerConfig`; `ensure`, `load`, `connect`, `deploy`, `wait`; then the
deferred functions `cleanup`, `restore`, `remove`, `unlock`), `mu` the holder of
`dockerConfigMu`, `env` the value of `DOCKER_CONFIG`, `prev` the value the cleanup
closure keeps, `dir` and `layout` what is on disk, `packager` whether the
goroutine of `executePackageDeployment` still runs. Every statement that can
fail does so, and every context can end at any moment. A temporary directory
carries the name of the call that made it. `os.RemoveAll`, `Setenv` and
`Unsetenv` in the cleanup are taken to succeed: the code ignores their errors.
The abstract `CredentialLease` has three variables (the process's own
configuration, the one in force, the clients that wait) and four actions; the
refinement mapping makes a call wait until `Setenv`, and hold the lease until
`RestoreEnv`.

**`Kubeconfig`**: callers of `New` and `Deploy` in `ensureInClusterConfig`. `once` is
the state of the `sync.Once`, `setupErr` the global error, `localErr` the
caller's own `err`, `file` and `kubeconfig` what it left behind. The kubelet
rotates the token, old tokens expire, the container restarts with an empty
`/tmp`. `host` is the address the pod's environment gives.

**`SpecHash`**: one resource whose spec is edited field by field, its stored
hash, and what the last successful deployment was given. A text is a sequence of
tokens, so that the separators of `computeSpecHash` can occur in values; SHA-256
is taken to be injective, so a hash is the text itself. `computeSpecHash` takes
the order in which `range` hands out the keys of the maps as an argument.
`Deployment` is the pair of what `LoadPackage` and `packager.Deploy` are given.

**`Architecture`**: one action per round of the loops over nodes and counts, in
any order.

**`PackageNames`**: one resource, passes and deployments as single steps.
Sources are texts of the form that the pattern of the CRD admits.
`PublishedName`, the name under which a package is in a registry and the packager
records it, is external.

**`RegistryAuth`**: a secret is, per key, one of the kinds of payload the code
tells apart. Edits of source, reference and secrets interleave with deployments.
The prefixes `http://` and `https://` are left out: the pattern of the CRD does
not admit them.

## The runs

The runs of `MCZarfPackage` have one resource and two goroutine slots (enough
for a deployment and the one that replaces it, or a zombie of it), `revertedspec`
one, which is the deployments one after another that it is about. *Disturbances*
are edits, removals by hand, failing calls and restarts; `MaxDisturbances` bounds
them, and a single one may come at any step. A deployment that fails is not a
disturbance and never bounded, and neither is the number of passes. The properties
of `lifecycle` are theorems besides, for any number of disturbances; those that do
not need a clean cluster are proved with packages to adopt as well (see below).
`MaxConsecutiveFailures` is 5 in the code; 2 has a failure below the limit and one at
it, 1 is used where failures only cost states. Where a run is *clean* nothing is
installed at the start (`CleanInit`); elsewhere the package may already be there.
Deadlock is checked in every run but `names`, where a resource that is gone leaves
nothing to do; in `MCZarfPackage`, `AtRest` is a stutter in the states where the
system really is done.

| run | instance | shows |
|---|---|---|
| `lifecycle` | 2 specs of one package, 1 disturbance, clean | `TypeOK`, `BreakerConsistent`, `TrackedIsLive`, `LaunchRespectsBreaker`, `NeverCreatedAgain`, `HashOnlyFromSuccess`, `OrderKept`, `CreateLaunchesAlone`, `UpdatesOnlyCreated` hold, and `BreakerImplemented`: the status refines `CircuitBreaker` |
| `recovery` | 1 spec, 1 disturbance, clean, fairness | `DeletionCompletes`, `AppliedUnlessCancelled` hold |
| `credentials` | 2 slots for calls, fairness | `TypeOK`, `NoDanglingConfig`, `OwnCredentials`, `RestoredWhenFree`, `DeployReturns` hold, and `LeaseImplemented`: the calls refine `CredentialLease` with its fairness |
| `setup` | 3 callers, 1 rotation, fairness | `TypeOK`, `ReadyMeansConfigured`, `AnswersAgree`, `CallerReturns` hold |
| `drift` | 15 fields with one to four further values each, two edited at a time | `TypeOK`, `NoMissedEdit`, `NoSpuriousDrift` hold |
| `majority` | up to 3 nodes, 2 architectures, both labels | `TypeOK`, `MajorityWins` hold |
| `names` | 8 sources of two packages, 2 namespaces, 3 edits, fairness | `TypeOK`, `AppliedIsFound`, `FinalSpecLeavesNothing`, `DeletionEnds` hold |
| `auth` | 2 sources, 2 namespaces, all secrets | `TypeOK`, `FirstFormDecides`, `LoginForOwnRegistry` hold |
| `prematurecancel` | 1 spec, no disturbance, clean | `CancelsOnlyOutdated` is violated |
| `orphaneddeployment` | 1 spec, no disturbance, clean | `DeletionCancels` is violated |
| `lostcancel` | 1 spec, no disturbance, clean | `UntrackedIsOver` is violated |
| `revertedspec` | 2 specs of one package, 1 slot, 2 disturbances, clean | `DriftIsDetected` is violated |

Two slots are a call that holds the mutex and one that waits or runs without
credentials, each again and again with other inputs; three callers are one inside
the `Once`, one that waits and one that comes later. Two edited fields of a spec
are an edit and what could hide it in the text that is hashed; more fields add no
pair. Three nodes have a majority, a tie and an unschedulable node.

`OrderKept` says of every step that it keeps the deployments of a resource in
order (one has not returned, it is tracked while it is live, it is cancelled when
`Update` launches the next), but for two kinds of steps, which it names: a
`cancel()` that comes before the `track()` of a launched goroutine
(`CancelsTooEarly`) and a launch while a cancelled goroutine has not returned
(`RelaunchesTooEarly`). It does not say that these do not happen: they do, and what
becomes of the tracker then is `lostcancel`. It says that restarts, deletions,
edits, late results and creations do no such harm. `CreateLaunchesAlone` is the part
of it that needs a clean cluster.

In `names`, `DeletionEnds` is about a resource whose external name, stored by
`Create`, is still that of the spec and whose source does not have both a tag and a
digest, or with nothing left to remove; the edits before may have gone through every
other form. `RenamedPackage` and `TaggedDigest` are the cases it leaves out.
`FinalSpecLeavesNothing` leaves out nothing: it is about the spec the resource has
at its end. What earlier specs left behind is `Renamespaced`.

The other configurations belong to no run of `PROJECT.json`. They say what one
might expect of the code and end in a counterexample, which shows where an
assumption of a run above is needed, or what the code leaves open:

| configuration | instance | violated |
|---|---|---|
| `AssumedRemoved` | 1 spec, 1 disturbance, packages to adopt | `FinalizedWhenRemoved` |
| `AdoptedAndLost` | 2 specs of two packages, 2 disturbances, packages to adopt | `CreateLaunchesAlone` |
| `RenamedPackage` | 2 specs of two packages, 1 disturbance, clean, fairness | `DeletionCompletes` |
| `Recreated` | 1 spec, created twice, clean | `FailuresAreOwn` |
| `RemovedByHand` | 1 spec, 1 disturbance, clean, fairness | `MissingIsRedeployed` |
| `LateDeployment` | 1 spec, no disturbance, clean | `NothingDeployedAfterEnd` |
| `CancelledWaiter`, `Borrowed`, `LayoutRemoved` (`MCZarfClient`) | 2 calls | `CancelledStaysOut`, `NoBorrowedCredentials`, `LayoutOutlivesPackager` |
| `StaleToken`, `ServerURL` (`MCKubeconfig`) | 2 callers | `CredentialsUsable`, `ServerReachable` |
| `Reordered`, `Separators`, `UnusedKey` (`MCSpecHash`) | 1 edited field | `OrderIsNoticed`, `VariablesAreNoticed`, `KeyIsUsed` |
| `Ambiguous` (`MCArchitecture`) | 2 nodes | `AmbiguousIsDefault` |
| `TaggedDigest` (`MCPackageNames`) | one source with tag and digest, fairness | `AnyDeletionEnds` |
| `Renamespaced` (`MCPackageNames`) | 2 namespaces, 1 edit | `NothingLeftBehind` |
| `EmptySecret` (`MCRegistryAuth`) | 1 namespace | `ReferencedSecretIsUsed` |

What the counterexamples say of the code; for the four violation runs
`PROJECT.json` quotes the lines they contradict:

1. **A first deployment is cancelled by its own controller** (`prematurecancel`).
   The pass after `Create` finds no package yet, so `Observe` takes the way of
   `handleNotInstalled`: the creation has succeeded, the deployment is under way,
   and the answer is *not up to date* (`zarfpackage.go:363-371`). The reconciler
   understands that as *call Update*; the hash is empty, so `Update` cancels the
   deployment that is still loading and launches the same one again. Release 1.1.2
   says this was fixed (`CHANGELOG.md:33-34`). `handleInstalled` does the same
   once the package is recorded and the hash is not (`zarfpackage.go:390-398`); the
   test of that branch asserts `ResourceUpToDate=false` "to prevent Update() from
   being called" (`zarfpackage_test.go:1537`), which is what makes the reconciler
   call it.
2. **Deleting during a deployment does not cancel it** (`orphaneddeployment`).
   Until the package is recorded, `observeDeletion` reports it as gone and
   `Delete`, which would cancel, is never called.
3. **A late goroutine untracks its successor** (`lostcancel`): `untrack` is by
   UID and does not ask whose entry it deletes. The successor works on and neither
   `Update` nor `Delete` can cancel it.
4. **Deletion after a renaming edit never completes** (`RenamedPackage`):
   `Delete` goes by the external name, `observeDeletion` by the source.
5. **A reverted edit can hide drift** (`revertedspec`): the hash is that of the
   last success, not of the last thing that changed the cluster.
6. **A failure is counted in a resource created later** (`Recreated`):
   `mutateStatus` looks the resource up by name.
7. **An unreachable cluster counts as removed** (`AssumedRemoved`): any error of
   `IsInstalled` during deletion lets the finalizer go.
8. **A package removed by hand stays away** (`RemovedByHand`): `Observe` misses
   it and asks for `Update`, which only compares hashes.
9. **An adopted package that disappears leaves two deployments at work**
   (`AdoptedAndLost`): a resource takes over a package that was there, an edit has
   `Update` launch a deployment of it, the package is removed by hand, and `Create`,
   which cancels nothing, launches another one beside it.
10. **A cancelled deployment may finish after the resource is gone**
    (`LateDeployment`), because nothing waits for `packager.Deploy`; meanwhile
    the package layout it reads is removed under it (`LayoutRemoved`).
11. **`DOCKER_CONFIG` is shared by the process** (`Borrowed`): a deployment without
    credentials takes no lock and runs under the `DOCKER_CONFIG` of another.
12. **Waiting for the mutex ignores the context** (`CancelledWaiter`).
13. **The kubeconfig ages** (`StaleToken`): its token is read once per process;
    and its server is the address release 1.1.4 says is no longer used
    (`ServerURL`).
14. **Edits that drift detection misses**: another order of the components
    (`Reordered`), and variables whose values hold the separators
    (`Separators`). The opposite, a field that is hashed and then ignored, is the
    signature key (`UnusedKey`).
15. **Architecture**: ties are not resolved to the default (`Ambiguous`).
16. **`name:tag@sha256:...` cannot be deleted** (`TaggedDigest`), and **an edit of
    the namespace leaves the first copy behind** (`Renamespaced`).
17. **An empty registry secret is ignored** (`EmptySecret`).

Differences met on the way that no run is about: `README.md:156` gives 15
minutes as the default timeout, `getDeployTimeout` 30. The comment at
`zarfpackage.go:407-408` says that `Observe` sets the hash "when initially empty
(line 386 above)"; the code there does not, and the comment above it
(`zarfpackage.go:385-389`) says why it must not. The run `lifecycle` checks what the
code does (`HashOnlyFromSuccess`).

`mutants` in `PROJECT.json` names for every property that holds a plausible bug
that breaks it: a dropped reset, a missing cap, a skipped `cancel` or `track`,
the hash initialised by `Observe` as before release 1.1.2, and so on. Their
definitions stand beside the ones they change.

## Fairness

`recovery`, `RenamedPackage.cfg` and `RemovedByHand.cfg`
assume weak fairness of the pass (the reconciler polls and retries failed passes
for ever; of the steps of a pass one is enabled at a time, and the failing
alternatives are not assumed to happen or to stop) and of each goroutine,
together with the packager and its failures (`Deploy` runs under a deadline, and `packager.Deploy` is given
the same timeout, so it ends in one way or another). Nothing is assumed of
users, of the clock, or of which way a deployment ends: deletion must complete
even if every deployment fails. A resource whose creation was cut off between
its *pending* and *succeeded* annotations is exempt: Crossplane refuses to touch
it until somebody intervenes. Since a deletion is never taken back,
`DeletionCompletes` says it as *no deletion lasts for ever*.

`AppliedUnlessCancelled` has one hypothesis more, because the code cannot apply a
spec without it, and has it in the property: `DeletionCompletes` is checked without.
`DeploymentsSucceed` says that the clock goes on, so that a cooldown ends, and that
a deployment that is tried again and again, and not cancelled, gets through once. No
order is assumed between polls and deployments: the controller polls every 2 minutes
(`cmd/provider/main.go:63`) and a deployment may take 30 (`zarfpackage.go:520`), and
every poll that finds the hash empty cancels and restarts the deployment, as
`prematurecancel` shows. `AppliedUnlessCancelled` is therefore a disjunction: from
some point on the desired spec is applied, or cancellations never end. For
behaviours of the second kind it promises nothing, and nothing can be promised. What
it does say is that endless cancellation is the only way not to arrive: a goroutine
lost in a restart, a result that could not be written, two launches that overlapped
and a breaker that opened are all made good by later passes.

`credentials`: a context ends some time (every one has a deadline), a call that can
take a step takes it, and a call that waits for the mutex while it is free again
and again gets it (strong fairness of `Lock`: a waiter of a Go mutex that was
passed over for a millisecond is handed it next). `packager.Deploy` is not
assumed to end. `setup`: Go schedules goroutines that can run, and nobody
restarts the container for ever at the wrong moment: a restart ends the call.
`names`, `TaggedDigest.cfg`: the reconciler retries a deletion until the finalizer is
gone.

## The theorems

`ZarfPackageProofs` proves, from the assumptions on the constants alone
(`ConstantsAssumption`: the functions have their types, the bounds are positive;
`NoneAssumption`: `None` is different from everything else), for any number of
specs, names, goroutines, re-creations and failures, without fairness, first:

| theorem | states |
|---|---|
| `TypeCorrect` | `TypeOK` always holds |
| `BreakerIsConsistent` | `BreakerConsistent` always holds |
| `TrackerIsLive` | `TrackedIsLive` always holds |
| `HashIsOfASuccess` | every step satisfies `HashOnlyFromSuccess` |
| `CreatedOnce` | every step satisfies `NeverCreatedAgain` |
| `BreakerIsRespected` | every step satisfies `LaunchRespectsBreaker` |

The inductive invariant is `IInv == TypeOK /\ GoroutineInv /\ PassInv`.
`TypeOK` is not inductive: a success writes the hash of a goroutine's spec,
which is a hash only because a goroutine at work has a spec (`GoroutineInv`),
and the annotation update after `Create` writes to a resource that exists only
because a copy with a finalizer keeps it alive (`PassInv`). `PassInv` says what a pass may rely on while
others write: a fresh copy agrees with the stored resource on everything but
the status `Observe` has changed; a copy with a finalizer means the resource is
there, with its finalizer and its UID; a pass that creates found no succeeded
creation, and its own pending annotation is the latest; a pass about to launch
whose copy is still fresh meets no cooling breaker. The action properties follow from
`IInv` in one step; `BreakerConsistent` and `TrackedIsLive` are inductive
relative to it. Each step lemma has one case per action.

Then in which order deployments of a resource follow each other. Nothing is assumed
of the speed of goroutines or passes:

| theorem | assumes | states |
|---|---|---|
| `OrderIsKept` | `CreateLaunchesAlone` | `OrderKept` |
| `CreationIsAlone` | `CreatedUntouched` | `CreateLaunchesAlone` and `OrderKept` |
| `CreationAdoptsNothing` | `CreatedUntouched` | `UpdatesOnlyCreated` |
| `FirstCreationAdoptsNothing` | `MaxUID = 1`, `NothingInstalled` at the start | `UpdatesOnlyCreated` |

`OrderIsKept` is the general one: that `Create` launches alone is a property of the
same behaviour, and `AdoptedAndLost` shows a behaviour in which it does not.
`CreatedUntouched` says that whenever the resource is created, the first time or
again under its name, no package is installed and no goroutine or packager of an
earlier one is left: `Observe` takes any package of the right name for the
resource's own, and a late goroutine could still record one. A resource created
once in an empty cluster satisfies it, which is `FirstCreationAdoptsNothing`, with
nothing assumed of what users do later.

The invariant is built in layers over `IInv` and `TrackedIsLive`. `KnownUIDs`: a
goroutine at work and the pass belong to UIDs that were given out, so that a new
resource meets none of its own. `CreationInv`: a goroutine of the stored resource
belongs to a creation that has succeeded or that the pass is about to record, so
that `Create` finds none; and only a created resource is updated. `UntouchedInv`:
until a creation gets through, the cluster has no package and no goroutine is at
work, so `Observe` finds nothing. `Orderly` relates the three places where the code
keeps a deployment: the goroutine, the tracker and the pass that replaces it. It is
not an invariant, since the two races break it, so the theorem is about steps
(`OrderStep`): from an orderly state, a step that is neither race leads to an
orderly one. Its hard case is the deferred `untrack`, which goes by UID: the entry
it deletes is the goroutine's own only because the UID has no other.

The last theorem builds on the first group: `ImplementsCircuitBreaker` says that every
behaviour of the controller is one of `CircuitBreaker` under the mapping of
`ZarfPackageRefinement`. Beyond `IInv` it needs `CopyInv`: the breaker of a
fresh copy either is the stored one or was reset by an `Observe` that the stored
one does not contradict, so that writing it back is `Resume` or a stutter. The
steps are sorted into those that write the stored breaker, one case each, and
those that at most start or end deployments.

`ZarfClientProofs`, for any set of calls, from `ClientAssumption` (the values
that are not calls are different from calls and each other):

| theorem | states |
|---|---|
| `TypeCorrect`, `NeverDangling`, `LoadsWithOwnCredentials`, `AlwaysRestored` | `TypeOK`, `NoDanglingConfig`, `OwnCredentials`, `RestoredWhenFree` always hold |
| `ImplementsLease` | `Spec => Lease!SafeSpec` |

The inductive invariant says of each place in the code who holds the mutex, what
is in the temporary directory, what `DOCKER_CONFIG` is and what `prev` keeps:
while a call is between `Setenv` and `RestoreEnv` it holds the mutex and `prev`
is the process's own value, so that restoring it restores the start.

`KubeconfigProofs`: `TypeCorrect`, `ReadyIsConfigured` and `AnswersAlwaysAgree`,
for any number of callers. The invariant: exactly the caller inside the `Once`
is in the set-up, its progress says what it has read and written, and once the
`Once` is done the file is there unless the error is set.

`ArchitectureProofs`: `TypeCorrect` and `MajorityAlwaysWins`, for any finite set
of nodes and any architectures. The invariant: the counts are the cardinalities
of the labelled nodes seen so far, and the maximum is that of the counts ranged
over so far, taken by the architecture remembered.

`TextProofs`: what `strings.Index`, `LastIndex`, `Split`, `TrimPrefix`, `TrimSpace`
and the slices of a text return, for texts of any length. None needs induction:
`Index` and `LastIndex` are the least and the greatest of a set of positions,
which exist by the well-foundedness of the naturals, and everything else is
positions of separators. `CutAtMarker` and `CutIsUnique` say when the place at which
two texts were joined can be found again, which reading a hash back comes down to.

`PackageNamesProofs`, from `SourcesAssumption`: every source has the form that
the pattern of the CRD admits (its last part is a name, a tag or none, and a
digest or none; TLC evaluates it for the sources of every run).

| theorem | states |
|---|---|
| `TypeCorrect` | `TypeOK` always holds |
| `AppliedPackageIsFound` | `AppliedIsFound` always holds |
| `FinalSpecIsRemoved` | `FinalSpecLeavesNothing` always holds, for sources of any packages, any namespaces and any edits |

The core is `ExtractionsAgree`: the client's extraction, applied to the
controller's, gives the name that the reference publishes. It has one case for
each of the four forms of the last part. In the fourth, `name:tag@sha256:...`, the
controller answers `name:tag`, which the client takes for a source and cuts again,
so the package is found, but `Remove` takes it for a source too, which is why
`TaggedDigest` does not end. The invariant adds to `TypeOK` that what a live
resource deployed last is still installed. `FinalSpecIsRemoved` rests on
`ExtractionsAgree` too: the last look of `observeDeletion` is by the name and
namespace of the final spec. What it cannot say is that earlier specs have left
nothing, of which `Renamespaced` is the counterexample.

`RegistryAuthProofs`, from `RegistryAuthAssumption` (no source has a blank or
starts with a slash, by the CRD's pattern): `TypeCorrect`,
`FirstFormDecidesAlways` and, if every source has a slash and so names a registry,
`LoginGoesToItsRegistry`, for any sources, namespaces and secrets. The invariant:
what a deployment was given is what its spec and secrets give now, or nothing
was given since the last edit. `SecretForm` sorts the secrets by the answer they
get, `CutWithoutPrefix` shows that dropping `oci://` and cutting at the first
slash can change places.

`SpecHashProofs`, for specs with any components, variables and features, any texts
and any number of edits:

| theorem | assumes | states |
|---|---|---|
| `TypeCorrect` | | `TypeOK` always holds |
| `UneditedSpecIsNotDrift` | | `NoSpuriousDrift` always holds |
| `EditsAreNoticed` | `PlainValues` | `NoMissedEdit` always holds |

The invariant adds `Recorded` to `TypeOK`: the stored hash is one of the spec
deployed last, whose components exist, and what is deployed is what that spec
asked for. Neither property is about single steps; both come from what the hash
says of the text that is hashed.

- `Sorted` is the rearrangement in which the keys are in order, and there is one:
  at the first place where two differed, each key would be less than the other.
  So the hash does not depend on the order of `range`, and no value of the spec
  matters for that.
- A text is read back from its end, section by section. Of two equal texts cut
  at the same marker, both halves are equal if no value holds the marker; a list
  in which every text is followed by a comma gives the texts back if none holds a
  comma; a text `key=value` gives both back if the key holds no `=`. Two specs with
  one hash therefore agree on every field that `Deployment` uses, except for
  the order of the components (sorted lists that are equal hold each name as
  often) and blanks around values.
- `PlainValues` is what this needs: no value holds one of the texts that
  `computeSpecHash` writes between values (`Markers`), components and variables hold
  no comma and keys no `=`, and what is deployed untrimmed has no blanks around it.
  For source, namespace and architecture the CRD's patterns see to it, for the other
  texts nothing does. `MCSpecHash` has TLC evaluate that the values of `drift` are
  plain and those of `Separators`, which ends in the counterexample, are not.

Tokens are strings. That the literals in the module are (`TokensAssumption`) is true
by the meaning of TLA+, and that different numbers are written differently
(`NumbersAssumption`) by that of `strconv.Itoa`; the provers know neither, so they are
assumptions, which TLC evaluates. What `FlattenSeq` computes recursively is shown
without an induction theorem: `CountingUp` says that a set of numbers that has 0 and
with each number the next has all up to a bound, by its least exception
(`MinProperty`), and is used with the lengths for which a fact about prefixes holds.

Only model-checked: everything under fairness (`DeletionCompletes`,
`AppliedUnlessCancelled`, `DeployReturns`, the fairness of `CredentialLease`,
`CallerReturns`, `DeletionEnds`), which is out of the prover's reach. What holds
under the bounds of a configuration that ends in a counterexample is not claimed
at all.

## Not modelled

- The ProviderConfig controller: it hands types to Crossplane's own reconciler.
- The logger bridge, the mock client, the entry point, features, version and
  generated code: no logic of this repository that state or order could break.
- Two resources of one package. They share what is installed, and deleting one
  removes it for both; nothing in the repository says what should happen.
- The arithmetic of the connection timeout: one expression.
- The test mode `ZARFCLIENT_SKIP_CLUSTER`.

## Plan

1. A composition of `ZarfPackage` with `ZarfClient`: two resources whose
   deployments share `dockerConfigMu`.
2. The order of the components as part of what `EditsAreNoticed` says, once
   `computeSpecHash` keeps it.
