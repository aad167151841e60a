---------------------------- MODULE PackageNames ----------------------------
(***************************************************************************)
(* Under which name a resource looks for its package and removes it: the   *)
(* extractions of a name from a source in                                  *)
(* internal/controller/zarfpackage/zarfpackage.go and in                   *)
(* internal/zarfclient/zarfclient.go, and the passes that use them.        *)
(*                                                                         *)
(* A pass is one step and a deployment succeeds at once: ZarfPackage has   *)
(* their interleavings and failures, and takes the names as given.         *)
(***************************************************************************)
EXTENDS Text, FiniteSets

CONSTANTS
    Sources,     \* the sources a user may write, as texts: a "/" follows "oci://"
    ResourceName, \* metadata.name, the initial external name, as a text
    Namespaces,  \* spec.forProvider.namespace, as texts
    MaxEdits     \* bound on edits of the spec

ASSUME PackageNamesAssumption ==
    /\ ResourceName # Empty
    /\ MaxEdits \in Nat

VARIABLES
    source,
    namespace,
    edits,
    extName,    \* the external-name annotation, as it is stored
    created,    \* the external-create-succeeded annotation is set
    applied,    \* the source and namespace deployed last: the hash's part
    resource,   \* "live", "deleting" or "gone"
    installed   \* the packages recorded in the cluster

vars == <<source, namespace, edits, extName, created, applied, resource, installed>>

ociPrefix == "oci://"

----------------------------------------------------------------------------
(* The controller's extraction: a digest loses its part after the colon    *)
(* first, then the rest of it is cut at the "@".                           *)
CutAfterFirst(t, c) == LET i == LastIndex(t, c) IN IF i > 1 THEN Before(t, i) ELSE t

extractKeepingDigest ==
    [s \in Sources |-> CutAfterFirst(LastPart(s, "/"), ":")]

extractFromUntagged ==
    [s \in Sources |-> LastPart(CutAfterFirst(s, ":"), "/")]

extractPackageName ==
    [s \in Sources |->
        IF Has(s, "/")
        THEN CutAfterFirst(CutAfterFirst(LastPart(s, "/"), ":"), "@")
        ELSE IF Index(s, ".") > 1 THEN Before(s, Index(s, ".")) ELSE s]

(* What the client is asked for. *)
Names == {extractPackageName[s] : s \in Sources} \cup {ResourceName}

(* Any text without "/", ":" and "@" is taken for a package's name. *)
IsClusterName(s) == ~Has(s, "/") /\ ~Has(s, ":") /\ ~Has(s, "@")

normalizeSource(s) ==
    IF s = Empty \/ IsClusterName(s) \/ HasPrefix(s, ociPrefix) THEN s
    ELSE <<ociPrefix>> \o s

(* The client's extraction. *)
Cut(t, c) == LET i == LastIndex(t, c) IN IF i > 0 THEN Before(t, i) ELSE t

extractPackageNameFromSource(s) ==
    Cut(Cut(LastPart(TrimPrefix(s, ociPrefix), "/"), ":"), "@")

inferClusterPackageName ==
    [n \in Names |->
        IF IsClusterName(n) THEN n
        ELSE extractPackageNameFromSource(normalizeSource(n))]

(* client.IsInstalled *)
IsInstalled(name) == [name |-> inferClusterPackageName[name], ns |-> namespace] \in installed

(* A registry's repository is named after the package it holds: the last   *)
(* part of the reference without tag and digest.                           *)
PublishedName ==
    [s \in Sources |->
        LET part == LastPart(s, "/")
            ends == Positions(part, ":") \cup Positions(part, "@")
        IN  IF ends = {} THEN part ELSE Before(part, Min(ends))]

(* A reference needs both a registry and a repository. *)
IsReference(s) == Has(s, "/")

(* What the pattern of spec.source admits as the last part: a name, then a *)
(* tag after ":" or none, then a digest after "@" or none, which has a ":" *)
(* of its own.                                                             *)
IsWellFormed(s) ==
    LET part  == LastPart(s, "/")
        colon == Index(part, ":")
        value == LastIndex(part, ":")
        at    == Index(part, "@")
    IN  /\ part # Empty /\ part[1] \notin {":", "@", ociPrefix}
        /\ Positions(part, ":") \subseteq {colon, value}
        /\ Positions(part, "@") \subseteq {at}
        /\ IF at = 0 THEN colon = value
           ELSE at < value /\ (colon < at \/ colon = value)

ASSUME SourcesAssumption == \A s \in Sources : s \in Texts /\ IsWellFormed(s)

----------------------------------------------------------------------------
Init ==
    /\ source \in Sources
    /\ namespace \in Namespaces
    /\ edits = 0
    /\ extName = ResourceName
    /\ created = FALSE
    /\ applied = Empty
    /\ resource = "live"
    /\ installed = {}

Edit ==
    /\ resource = "live"
    /\ edits < MaxEdits
    /\ edits' = edits + 1
    /\ source' \in Sources
    /\ namespace' \in Namespaces
    /\ UNCHANGED <<extName, created, applied, resource, installed>>

RequestDelete ==
    /\ resource = "live"
    /\ resource' = "deleting"
    /\ UNCHANGED <<source, namespace, edits, extName, created, applied, installed>>

getPackageName ==
    LET name == extractPackageName[source] IN IF name = Empty THEN extName ELSE name

computeSpecHash == <<source, namespace>>

(* The deployment of a reference records the package under its own name in *)
(* the spec's namespace; that of anything else fails.                      *)
Deploy ==
    IF IsReference(source)
    THEN /\ installed' = installed \cup {[name |-> PublishedName[source], ns |-> namespace]}
         /\ applied' = computeSpecHash
    ELSE UNCHANGED <<installed, applied>>

CreateUnnamed ==
    /\ resource = "live"
    /\ ~IsInstalled(getPackageName)
    /\ ~created
    /\ created' = TRUE
    /\ Deploy
    /\ UNCHANGED <<source, namespace, edits, extName, resource>>

(* Observe finds nothing installed and the resource never created; Create  *)
(* stores the external name.                                               *)
Create ==
    /\ resource = "live"
    /\ ~IsInstalled(getPackageName)
    /\ ~created
    /\ created' = TRUE
    /\ extName' = getPackageName
    /\ Deploy
    /\ UNCHANGED <<source, namespace, edits, resource>>

(* Observe finds the package installed, or the resource created before;    *)
(* Update stores no annotation.                                            *)
Update ==
    /\ resource = "live"
    /\ IsInstalled(getPackageName) \/ created
    /\ applied # computeSpecHash
    /\ Deploy
    /\ UNCHANGED <<source, namespace, edits, extName, created, resource>>

(* client.Remove: only a name is looked up in the cluster, anything else   *)
(* is taken for a reference and cannot be loaded.                          *)
Remove(name) ==
    installed' =
        IF IsClusterName(normalizeSource(name))
        THEN installed \ {[name |-> name, ns |-> namespace]}
        ELSE installed

observeDeletionAnywhere ==
    [name |-> getPackageName, ns |-> Empty] \in installed

observeDeletion == IsInstalled(getPackageName)

(* A pass of a deletion that finds the package calls Delete. *)
Delete ==
    /\ resource = "deleting"
    /\ observeDeletion
    /\ LET name == IF extName = Empty THEN extractPackageName[source] ELSE extName
       IN  IF IsInstalled(name) THEN Remove(name) ELSE UNCHANGED installed
    /\ UNCHANGED <<source, namespace, edits, extName, created, applied, resource>>

RemoveFinalizer ==
    /\ resource = "deleting"
    /\ ~observeDeletion
    /\ resource' = "gone"
    /\ UNCHANGED <<source, namespace, edits, extName, created, applied, installed>>

Next == Edit \/ RequestDelete \/ Create \/ Update \/ Delete \/ RemoveFinalizer

Spec == Init /\ [][Next]_vars

(* The reconciler retries a deletion until the finalizer is gone. *)
FairSpec == Spec /\ WF_vars(Delete) /\ WF_vars(RemoveFinalizer)

----------------------------------------------------------------------------
(* Properties. *)

TypeOK ==
    /\ source \in Sources
    /\ namespace \in Namespaces
    /\ edits \in 0..MaxEdits
    /\ extName \in Names
    /\ created => \E s \in Sources : extName = extractPackageName[s]
    /\ resource \in {"live", "deleting", "gone"}
    /\ \A p \in installed : p.ns \in Namespaces /\ IsClusterName(p.name)

(* The package a deployment has just recorded is found again: controller   *)
(* and client, which extract the name twice and by different rules, arrive *)
(* at the name the package was published under.                            *)
AppliedIsFound ==
    resource = "live" /\ applied = computeSpecHash => IsInstalled(getPackageName)

(* The finalizer goes only when the package of the final spec is gone from *)
(* its namespace, under the name its registry gave it: what is left was    *)
(* left by an earlier edit of the name or the namespace.                   *)
FinalSpecLeavesNothing ==
    resource = "gone" /\ IsReference(source) =>
        [name |-> PublishedName[source], ns |-> namespace] \notin installed

(* When the finalizer is gone, so is everything the resource deployed,     *)
(* whatever the edits.                                                     *)
NothingLeftBehind == resource = "gone" => installed = {}

HasTagAndDigest(s) ==
    LET part == LastPart(s, "/")
    IN  Has(part, "@") /\ Index(part, ":") < Index(part, "@")

(* A deletion ends if there is nothing to remove, or the external name that *)
(* Create stored is still that of the spec, unless the source has both a   *)
(* tag and a digest: the package that observeDeletion waits for is the one *)
(* that Delete removes, whatever form the source has had before.           *)
DeletionEnds ==
    (/\ resource = "deleting"
     /\ \/ extName = getPackageName /\ ~HasTagAndDigest(source)
        \/ ~observeDeletion)
      ~> (resource = "gone")

(* A deletion ends, whatever the source.                                   *)
AnyDeletionEnds == (resource = "deleting") ~> (resource = "gone")

============================================================================
