------------------------------ MODULE SpecHash ------------------------------
(***************************************************************************)
(* Drift detection: computeSpecHash of the spec against the hash of the    *)
(* spec deployed last (internal/controller/zarfpackage/zarfpackage.go),    *)
(* and what a deployment does with the same spec, in the controller's and  *)
(* the client's buildDeployOptions.                                        *)
(*                                                                         *)
(* A text is a sequence of tokens, so that a value may hold the characters *)
(* that computeSpecHash writes between values; SHA-256 is taken to have no *)
(* collisions, so a hash is the text that is hashed.  A deployment is one  *)
(* step: ZarfPackage has its interleavings.                                *)
(***************************************************************************)
EXTENDS Naturals, SequencesExt, Text

CONSTANTS
    Base,               \* the spec of the new resource: a record
    FieldValues,        \* for each field, the values a user may give it
    MaxEdited,          \* bound on the fields that differ from Base
    PackageComponents,  \* the package's components in its own order: names
    Alphabet,           \* the tokens in byte order
    Architectures,      \* what the detection of the architecture may answer
    defaultRegistrySecretNamespace,
    None

Fields ==
    {"source", "namespace", "architecture", "key", "confirm", "adopt",
     "skipSignature", "plainHTTP", "insecureTLS", "retries", "timeout",
     "components", "variables", "features", "registrySecretRef"}

Values(f) == FieldValues[f] \cup {Base[f]}

Specs ==
    [source : Values("source"), namespace : Values("namespace"),
     architecture : Values("architecture"), key : Values("key"),
     confirm : Values("confirm"), adopt : Values("adopt"),
     skipSignature : Values("skipSignature"), plainHTTP : Values("plainHTTP"),
     insecureTLS : Values("insecureTLS"), retries : Values("retries"),
     timeout : Values("timeout"), components : Values("components"),
     variables : Values("variables"), features : Values("features"),
     registrySecretRef : Values("registrySecretRef")]

(* Texts that can be sorted. *)
Words == Seq(ToSet(Alphabet))

SecretReference == [name : Texts, namespace : Texts]

(* What the deployment of a spec is given, see below. *)
LoadOptions ==
    [source : Texts, registry : SecretReference \cup {None}, architecture : Texts,
     publicKeyPath : Texts, skipSignature : BOOLEAN,
     components : Seq(Texts) \cup {None}, plainHTTP : BOOLEAN, insecureTLS : BOOLEAN]

DeployOptions ==
    [variables : Values("variables"), adopt : BOOLEAN, namespace : Texts,
     retries : Nat, timeout : Nat]

ASSUME SpecHashAssumption ==
    /\ Base \in Specs
    /\ DOMAIN FieldValues = Fields
    /\ MaxEdited \in Nat
    /\ Alphabet \in Seq(STRING)
    /\ PackageComponents \in Seq(Texts)
    /\ Architectures \subseteq Texts
    /\ defaultRegistrySecretNamespace \in Texts

(* The types of ZarfPackageParameters. *)
ASSUME ParametersAssumption ==
    /\ \A f \in {"source", "namespace", "architecture", "key"} : Values(f) \subseteq Texts
    /\ \A f \in {"confirm", "adopt", "skipSignature", "plainHTTP", "insecureTLS"} :
          Values(f) \subseteq BOOLEAN
    /\ \A f \in {"retries", "timeout"} : Values(f) \subseteq {None} \cup Nat
    /\ Values("components") \subseteq Seq(Words)
    /\ \A m \in Values("variables") :
          IsFiniteSet(DOMAIN m) /\ DOMAIN m \subseteq Words /\ m \in [DOMAIN m -> Texts]
    /\ \A m \in Values("features") :
          IsFiniteSet(DOMAIN m) /\ DOMAIN m \subseteq Words /\ m \in [DOMAIN m -> BOOLEAN]
    /\ Values("registrySecretRef") \subseteq {None} \cup SecretReference

ASSUME NoneAssumption ==
    /\ None \notin Texts
    /\ None \notin Nat
    /\ None \notin Seq(Texts)
    /\ None \notin SecretReference
    /\ None \notin Specs
    /\ None \notin [load : LoadOptions, options : DeployOptions]

VARIABLES
    spec,      \* spec.forProvider
    applied,   \* status.atProvider.lastAppliedSpecHash, or None
    last,      \* the spec of the last successful deployment, or None
    deployed   \* what that deployment gave to LoadPackage and packager.Deploy

vars == <<spec, applied, last, deployed>>

----------------------------------------------------------------------------
(* Texts. *)

(* The order of sort.Strings. *)
Less(t, u) ==
    LET rank(a) == CHOOSE i \in DOMAIN Alphabet : Alphabet[i] = a
        common  == {i \in DOMAIN t \cap DOMAIN u : t[i] # u[i]}
    IN  IF common = {} THEN Len(t) < Len(u)
        ELSE rank(t[Min(common)]) < rank(u[Min(common)])

(* strconv.FormatBool, strconv.Itoa and Duration.String, nothing for nil. *)
FormatBool(b) == IF b THEN <<"true">> ELSE <<"false">>
Itoa(n) == IF n = None THEN Empty ELSE <<ToString(n)>>

(* Different numbers are different texts. *)
ASSUME NumbersAssumption ==
    \A m, n \in Values("retries") \cup Values("timeout") :
        /\ Itoa(m) \in Texts
        /\ Itoa(m) = Itoa(n) => m = n

(* What computeSpecHash writes between the values. *)
Markers ==
    {"source=", ";namespace=", ";architecture=", ";key=", ";confirm=", ";adopt=",
     ";skipSignature=", ";plainHTTP=", ";insecureTLS=", ";retries=", ";timeout=",
     ";components=", ";variables=", ";features=", ";registryName=",
     ";registryNamespace=", ";registryName=;registryNamespace=;"}

(* True of every string; the provers have no rule for it. *)
ASSUME TokensAssumption == Markers \cup {",", "=", "true", "false"} \subseteq STRING

(* The keys of a map as range hands them out: in any order. *)
RangeOrders(m) == SetToSeqs(DOMAIN m)

(* A section of the hash: every text of s, followed by ",". *)
Listed(s) == FlattenSeq([i \in DOMAIN s |-> s[i] \o <<",">>])

----------------------------------------------------------------------------
(* computeSpecHash, the map's keys in the order of iteration given. *)

Scalars(p) ==
       <<"source=">>         \o TrimSpace(p.source)
    \o <<";namespace=">>     \o TrimSpace(p.namespace)
    \o <<";architecture=">>  \o TrimSpace(p.architecture)
    \o <<";key=">>           \o TrimSpace(p.key)
    \o <<";confirm=">>       \o FormatBool(p.confirm)
    \o <<";adopt=">>         \o FormatBool(p.adopt)
    \o <<";skipSignature=">> \o FormatBool(p.skipSignature)
    \o <<";plainHTTP=">>     \o FormatBool(p.plainHTTP)
    \o <<";insecureTLS=">>   \o FormatBool(p.insecureTLS)
    \o <<";retries=">>       \o Itoa(p.retries)
    \o <<";timeout=">>       \o Itoa(p.timeout)

SecretRef(ref) ==
    IF ref = None THEN <<";registryName=;registryNamespace=;">>
    ELSE <<";registryName=">> \o TrimSpace(ref.name)
         \o <<";registryNamespace=">> \o TrimSpace(ref.namespace)

InRangeOrder(s) == s

(* The text at position i has as many before it as are less, or equal and  *)
(* handed out earlier.                                                     *)
Sorted(s) ==
    LET precedes(j, i) == Less(s[j], s[i]) \/ (s[j] = s[i] /\ j < i)
        place(i)       == Cardinality({j \in DOMAIN s : precedes(j, i)}) + 1
    IN  [k \in DOMAIN s |-> s[CHOOSE i \in DOMAIN s : place(i) = k]]

Components(p) ==
    <<";components=">> \o Listed(Sorted(p.components))

VariableKeys(p, keys) == <<";variables=">> \o Listed(Sorted(keys))

Variables(p, keys) ==
    LET s == Sorted(keys)
    IN  <<";variables=">>
        \o Listed([i \in DOMAIN s |-> s[i] \o <<"=">> \o p.variables[s[i]]])

Features(p, keys) ==
    LET s == Sorted(keys)
    IN  <<";features=">>
        \o Listed([i \in DOMAIN s |-> s[i] \o <<"=">> \o FormatBool(p.features[s[i]])])

computeSpecHash(p, varKeys, featureKeys) ==
    Scalars(p) \o Components(p) \o Variables(p, varKeys)
    \o Features(p, featureKeys) \o SecretRef(p.registrySecretRef)

Hashes(p) ==
    {computeSpecHash(p, v, f) :
        v \in RangeOrders(p.variables), f \in RangeOrders(p.features)}

----------------------------------------------------------------------------
(* What the deployment of a spec is given. *)

DefaultTimeout == 30

(* Minutes; a timeout of nothing is the default. *)
getDeployTimeout(p) ==
    IF p.timeout # None /\ p.timeout > 0 THEN p.timeout ELSE DefaultTimeout

(* orderedComponentFilter.Apply: the requested components in the order of  *)
(* the request, None for a name that is not in the package; all of them    *)
(* when nothing is requested.                                              *)
Apply(requested) ==
    IF requested = <<>> THEN PackageComponents
    ELSE IF \A name \in ToSet(requested) : name \in ToSet(PackageComponents)
         THEN requested
         ELSE None

(* The secret that resolveRegistryDockerConfig reads, or None. *)
RegistrySecret(ref) ==
    IF ref = None \/ TrimSpace(ref.name) = Empty THEN None
    ELSE [name      |-> ref.name,
          namespace |-> IF TrimSpace(ref.namespace) = Empty
                        THEN defaultRegistrySecretNamespace
                        ELSE TrimSpace(ref.namespace)]

(* The controller's: PublicKeyPath is never set, and the features and      *)
(* confirm have no place in DeployOptions.                                 *)
buildDeployOptions(p, detected) ==
    [source        |-> p.source,
     namespace     |-> p.namespace,
     components    |-> p.components,
     variables     |-> p.variables,
     architecture  |-> IF TrimSpace(p.architecture) = Empty THEN detected
                       ELSE p.architecture,
     publicKeyPath |-> Empty,
     retries       |-> p.retries,
     timeout       |-> getDeployTimeout(p),
     adopt         |-> p.adopt,
     skipSignature |-> p.skipSignature,
     plainHTTP     |-> p.plainHTTP,
     insecureTLS   |-> p.insecureTLS,
     registry      |-> RegistrySecret(p.registrySecretRef)]

buildLoadOptions(opts) ==
    [source        |-> opts.source,
     registry      |-> opts.registry,
     architecture  |-> opts.architecture,
     publicKeyPath |-> opts.publicKeyPath,
     skipSignature |-> opts.skipSignature,
     components    |-> Apply(opts.components),
     plainHTTP     |-> opts.plainHTTP,
     insecureTLS   |-> opts.insecureTLS]

(* The client's buildDeployOptions. *)
packagerOptions(opts) ==
    [variables |-> opts.variables,
     adopt     |-> opts.adopt,
     namespace |-> opts.namespace,
     retries   |-> IF opts.retries = None THEN 0 ELSE opts.retries,
     timeout   |-> opts.timeout]

Deployment(p, detected) ==
    LET opts == buildDeployOptions(p, detected)
    IN  [load |-> buildLoadOptions(opts), options |-> packagerOptions(opts)]

----------------------------------------------------------------------------
Init ==
    /\ spec = Base
    /\ applied = None
    /\ last = None
    /\ deployed = None

Edited(p) == {f \in DOMAIN Base : p[f] # Base[f]}

(* The user edits a field. *)
Edit ==
    /\ \E f \in DOMAIN FieldValues :
         \E v \in FieldValues[f] : spec' = [spec EXCEPT ![f] = v]
    /\ Cardinality(Edited(spec')) <= MaxEdited
    /\ UNCHANGED <<applied, last, deployed>>

RedeployUnrecorded(hash) ==
    \E detected \in Architectures :
        /\ Apply(spec.components) # None
        /\ last' = spec
        /\ deployed' = Deployment(spec, detected)
        /\ UNCHANGED <<spec, applied>>

(* Create when nothing is installed, Update when the hash differs.  The    *)
(* deployment of a component the package does not have fails.              *)
Redeploy(hash) ==
    \E detected \in Architectures :
        /\ Apply(spec.components) # None
        /\ applied' = hash
        /\ last' = spec
        /\ deployed' = Deployment(spec, detected)
        /\ UNCHANGED spec

Create == applied = None /\ \E hash \in Hashes(spec) : Redeploy(hash)

Update ==
    /\ applied # None
    /\ \E hash \in Hashes(spec) : hash # applied /\ Redeploy(hash)

Next == Edit \/ Create \/ Update

Spec == Init /\ [][Next]_vars

----------------------------------------------------------------------------
(* Properties. *)

(* Update has nothing to do. *)
UpToDate == applied \in Hashes(spec)

SameComponents(s, t) ==
    \A name \in ToSet(s) \cup ToSet(t) :
        Cardinality({i \in DOMAIN s : s[i] = name})
            = Cardinality({i \in DOMAIN t : t[i] = name})

TypeOK ==
    /\ spec \in Specs
    /\ applied \in {None} \cup Texts
    /\ applied = None <=> last = None
    /\ deployed \in {None} \cup [load : LoadOptions, options : DeployOptions]
    /\ applied = None <=> deployed = None

(* No edit that matters is missed: when Update has nothing to do, what is  *)
(* deployed is what the spec asks for, up to the order of the components   *)
(* and the architecture of a spec that names none.                         *)
NoMissedEdit ==
    UpToDate =>
        LET wanted == Deployment(spec, deployed.load.architecture)
        IN  /\ deployed.options = wanted.options
            /\ \A f \in DOMAIN wanted.load \ {"components"} :
                  deployed.load[f] = wanted.load[f]
            /\ wanted.load.components # None
            /\ SameComponents(deployed.load.components, wanted.load.components)

(* A spec that was deployed and not edited since is never deployed again:  *)
(* whatever order range hands the keys of the maps out in, the hash is the *)
(* one that was stored.                                                    *)
NoSpuriousDrift == last = spec => Hashes(spec) = {applied}

(* The components that are deployed were deployed in the order that the    *)
(* spec now gives.                                                         *)
OrderIsNoticed == UpToDate => deployed.load.components = Apply(spec.components)

(* The variables of a resource that is up to date are the spec's, with any *)
(* characters in their values.                                             *)
VariablesAreNoticed == UpToDate => deployed.options.variables = spec.variables

(* A key for the validation of the package's signature takes part in the   *)
(* deployment.                                                             *)
KeyIsUsed == UpToDate => deployed.load.publicKeyPath = TrimSpace(spec.key)

----------------------------------------------------------------------------
(* The values of which the hash can be read back: none holds a text that   *)
(* computeSpecHash writes between values.                                  *)

Plain(t) == t \in Texts /\ \A c \in Markers : ~Has(t, c)

PlainTexts ==
    \A f \in {"source", "namespace", "architecture", "key"} : \A t \in Values(f) : Plain(t)

(* What LoadPackage and Deploy are given is not trimmed, what is hashed is.*)
TrimmedTexts ==
    /\ \A f \in {"source", "namespace", "architecture"} :
          \A t \in Values(f) : TrimSpace(t) = t
    /\ \A ref \in Values("registrySecretRef") : ref # None => TrimSpace(ref.name) = ref.name

PlainNumbers ==
    \A n \in Values("retries") \cup Values("timeout") : Plain(Itoa(n))

PlainComponents ==
    \A s \in Values("components") : \A i \in DOMAIN s : Plain(s[i]) /\ ~Has(s[i], ",")

PlainVariables ==
    \A m \in Values("variables") : \A k \in DOMAIN m :
        /\ Plain(k) /\ ~Has(k, ",") /\ ~Has(k, "=")
        /\ Plain(m[k]) /\ ~Has(m[k], ",")

PlainFeatures ==
    \A m \in Values("features") : \A k \in DOMAIN m : Plain(k)

PlainSecrets ==
    \A ref \in Values("registrySecretRef") :
        ref # None => Plain(ref.name) /\ Plain(ref.namespace)

PlainValues ==
    /\ PlainTexts
    /\ TrimmedTexts
    /\ PlainNumbers
    /\ PlainComponents
    /\ PlainVariables
    /\ PlainFeatures
    /\ PlainSecrets

============================================================================
