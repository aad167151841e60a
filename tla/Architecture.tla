---------------------------- MODULE Architecture ----------------------------
(***************************************************************************)
(* The architecture of a deployment: the spec's, or what the labels of the *)
(* cluster's nodes say (buildDeployOptions and detectClusterArchitecture   *)
(* in internal/controller/zarfpackage/zarfpackage.go).  range hands out    *)
(* the counted architectures in any order.                                 *)
(***************************************************************************)
EXTENDS Naturals, FiniteSets

CONSTANTS
    Nodes,               \* the nodes a cluster may have
    Arches,              \* the architectures that specs and labels name
    defaultArchitecture,
    None                 \* a missing or empty label, a blank architecture

ASSUME ArchitectureAssumption ==
    /\ IsFiniteSet(Nodes)
    /\ defaultArchitecture \in Arches
    /\ None \notin Arches

VARIABLES
    pc,
    spec,              \* spec.forProvider.architecture
    listed,            \* the nodes of the list that was read
    counted,           \* the nodes the loop of countNodeArchitectures has seen
    schedulableNodes,
    archCounts,
    ranged,            \* the architectures the loop of findMajority... has seen
    maxCount,
    majorityArch,
    arch               \* the deployment's architecture

vars == <<pc, spec, listed, counted, schedulableNodes, archCounts, ranged,
          maxCount, majorityArch, arch>>

countVars == <<counted, schedulableNodes, archCounts>>
rangeVars == <<ranged, maxCount, majorityArch>>

Label == Arches \cup {None}

Node == [unschedulable : BOOLEAN, label : Label, beta : Label]

NodeLists == UNION {[S -> Node] : S \in SUBSET Nodes}

Init ==
    /\ pc = "idle"
    /\ spec = None
    /\ listed = <<>>
    /\ counted = {}
    /\ schedulableNodes = 0
    /\ archCounts = [a \in Arches |-> 0]
    /\ ranged = {}
    /\ maxCount = 0
    /\ majorityArch = None
    /\ arch = None

Goto(from, to) == pc = from /\ pc' = to

Return(a) == pc' = "done" /\ arch' = a

----------------------------------------------------------------------------
(* buildDeployOptions; the next call starts afresh. *)
buildDeployOptions(a) ==
    /\ pc \in {"idle", "done"}
    /\ pc' = IF a = None THEN "list" ELSE "done"
    /\ arch' = a
    /\ spec' = a
    /\ listed' = <<>>
    /\ counted' = {}
    /\ schedulableNodes' = 0
    /\ archCounts' = [b \in Arches |-> 0]
    /\ ranged' = {}
    /\ maxCount' = 0
    /\ majorityArch' = None

(* The list of the nodes cannot be read: the caller takes the default. *)
ListFails ==
    /\ pc = "list"
    /\ Return(defaultArchitecture)
    /\ UNCHANGED <<spec, listed, countVars, rangeVars>>

List(nodes) ==
    /\ Goto("list", "count")
    /\ listed' = nodes
    /\ UNCHANGED <<spec, countVars, rangeVars, arch>>

(* The standard label first, then the deprecated one. *)
Arch(n) ==
    IF listed[n].label # None THEN listed[n].label ELSE listed[n].beta

(* One round of the loop of countNodeArchitectures. *)
countAnyNode(n) ==
    /\ pc = "count"
    /\ n \in DOMAIN listed \ counted
    /\ counted' = counted \cup {n}
    /\ schedulableNodes' = schedulableNodes + 1
    /\ archCounts' = [a \in Arches |-> archCounts[a] + IF Arch(n) = a THEN 1 ELSE 0]
    /\ UNCHANGED <<pc, spec, listed, rangeVars, arch>>

countNode(n) ==
    /\ pc = "count"
    /\ n \in DOMAIN listed \ counted
    /\ counted' = counted \cup {n}
    /\ IF listed[n].unschedulable
       THEN UNCHANGED <<schedulableNodes, archCounts>>
       ELSE /\ schedulableNodes' = schedulableNodes + 1
            /\ archCounts' = [a \in Arches |->
                                archCounts[a] + IF Arch(n) = a THEN 1 ELSE 0]
    /\ UNCHANGED <<pc, spec, listed, rangeVars, arch>>

(* No node, no schedulable node or no label: the default. *)
NothingCounted ==
    /\ pc = "count"
    /\ counted = DOMAIN listed
    /\ schedulableNodes = 0 \/ \A a \in Arches : archCounts[a] = 0
    /\ Return(defaultArchitecture)
    /\ UNCHANGED <<spec, listed, countVars, rangeVars>>

AnyListed ==
    /\ Goto("count", "range")
    /\ counted = DOMAIN listed
    /\ schedulableNodes > 0
    /\ UNCHANGED <<spec, listed, countVars, rangeVars, arch>>

SomeCounted ==
    /\ Goto("count", "range")
    /\ counted = DOMAIN listed
    /\ schedulableNodes > 0
    /\ \E a \in Arches : archCounts[a] > 0
    /\ UNCHANGED <<spec, listed, countVars, rangeVars, arch>>

(* One round of the loop of findMajorityArchitecture. *)
findMajorityArchitecture(a) ==
    /\ pc = "range"
    /\ archCounts[a] > 0
    /\ a \notin ranged
    /\ ranged' = ranged \cup {a}
    /\ IF archCounts[a] > maxCount
       THEN maxCount' = archCounts[a] /\ majorityArch' = a
       ELSE UNCHANGED <<maxCount, majorityArch>>
    /\ UNCHANGED <<pc, spec, listed, countVars, arch>>

MajorityFound ==
    /\ pc = "range"
    /\ \A a \in Arches : archCounts[a] > 0 => a \in ranged
    /\ Return(majorityArch)
    /\ UNCHANGED <<spec, listed, countVars, rangeVars>>

Next ==
    \/ \E a \in Label : buildDeployOptions(a)
    \/ ListFails
    \/ \E nodes \in NodeLists : List(nodes)
    \/ \E n \in Nodes : countNode(n)
    \/ NothingCounted \/ SomeCounted
    \/ \E a \in Arches : findMajorityArchitecture(a)
    \/ MajorityFound

Spec == Init /\ [][Next]_vars

----------------------------------------------------------------------------
(* Properties. *)

TypeOK ==
    /\ pc \in {"idle", "list", "count", "range", "done"}
    /\ spec \in Label
    /\ listed \in NodeLists
    /\ counted \subseteq DOMAIN listed
    /\ schedulableNodes \in Nat
    /\ archCounts \in [Arches -> Nat]
    /\ ranged \subseteq Arches
    /\ maxCount \in Nat
    /\ majorityArch \in Label
    /\ arch \in Label
    /\ pc = "done" => arch # None

(* The schedulable nodes that a list labels with an architecture. *)
Labelled(a) ==
    {n \in DOMAIN listed : ~listed[n].unschedulable /\ Arch(n) = a}

Votes(a) == Cardinality(Labelled(a))

(* A deployment that names no architecture gets one that no other outvotes *)
(* among the schedulable nodes of the list, or, when none of them has a    *)
(* label, the default, in whatever order the nodes and the counts are gone *)
(* through.                                                                *)
MajorityWins ==
    pc = "done" /\ spec = None =>
        /\ arch \in Arches
        /\ \A a \in Arches : Votes(a) <= Votes(arch)
        /\ (\A a \in Arches : Votes(a) = 0) => arch = defaultArchitecture

(* A tie is ambiguous and gives the default. *)
AmbiguousIsDefault ==
    pc = "done" /\ spec = None =>
        \A a \in Arches \ {arch} : Votes(a) = Votes(arch) => arch = defaultArchitecture

============================================================================
