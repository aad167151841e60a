------------------------- MODULE ArchitectureProofs -------------------------
(***************************************************************************)
(* Architecture: for every cluster and every set of architectures, the     *)
(* deployment of a spec without one gets an architecture with the most     *)
(* votes.                                                                  *)
(*                                                                         *)
(* TypeOK and MajorityWins are not inductive: what the loops have counted  *)
(* and compared so far is added to them.                                   *)
(***************************************************************************)
EXTENDS Architecture, FiniteSetTheorems, TLAPS

(* The counted nodes that vote for a. *)
Seen(a) == {n \in counted : ~listed[n].unschedulable /\ Arch(n) = a}

(* archCounts counts the nodes seen so far, all of them schedulable. *)
CountsRight ==
    \A a \in Arches :
        /\ archCounts[a] = Cardinality(Seen(a))
        /\ archCounts[a] <= schedulableNodes

(* majorityArch is the first of the architectures with the highest count   *)
(* among those compared so far.                                            *)
RangeRight ==
    /\ \A a \in ranged : archCounts[a] <= maxCount
    /\ majorityArch = None => ranged = {} /\ maxCount = 0
    /\ majorityArch # None => archCounts[majorityArch] = maxCount

(* Where the loops begin and what has ended before. *)
PhasesRight ==
    /\ pc \in {"idle", "list"} => listed = <<>> /\ counted = {}
    /\ pc \in {"idle", "list", "count"} =>
          ranged = {} /\ maxCount = 0 /\ majorityArch = None
    /\ pc = "range" => /\ counted = DOMAIN listed
                       /\ \E a \in Arches : archCounts[a] > 0

IInv == TypeOK /\ CountsRight /\ RangeRight /\ PhasesRight /\ MajorityWins

----------------------------------------------------------------------------
LEMMA EmptyList == <<>> \in NodeLists /\ DOMAIN <<>> = {}
<1>1. <<>> = [n \in {} |-> None]
  OBVIOUS
<1>2. <<>> \in [{} -> Node] /\ DOMAIN <<>> = {}
  BY <1>1
<1> QED
  BY <1>2 DEF NodeLists

LEMMA ListedDomain ==
    ASSUME TypeOK
    PROVE  /\ DOMAIN listed \subseteq Nodes
           /\ \A n \in DOMAIN listed : Arch(n) \in Label
<1>1. PICK S \in SUBSET Nodes : listed \in [S -> Node]
  BY DEF TypeOK, NodeLists
<1> QED
  BY <1>1 DEF Arch, Node, Label

LEMMA SeenFinite ==
    ASSUME TypeOK, NEW a
    PROVE  IsFiniteSet(Seen(a)) /\ Cardinality(Seen(a)) \in Nat
<1>1. Seen(a) \subseteq Nodes
  BY ListedDomain DEF Seen, TypeOK
<1>2. IsFiniteSet(Seen(a))
  BY <1>1, ArchitectureAssumption, FS_Subset
<1> QED
  BY <1>2, FS_CardinalityType

(* Once every node of the list is counted, the counts are the votes. *)
LEMMA VotesCounted ==
    ASSUME CountsRight, counted = DOMAIN listed
    PROVE  \A a \in Arches : Votes(a) = archCounts[a]
<1>1. \A a : Labelled(a) = Seen(a)
  BY DEF Labelled, Seen
<1> QED
  BY <1>1 DEF CountsRight, Votes

LEMMA NoVotes ==
    ASSUME listed = <<>>
    PROVE  \A a : Votes(a) = 0
<1>1. \A a : Labelled(a) = {}
  BY EmptyList DEF Labelled
<1> QED
  BY <1>1, FS_EmptySet DEF Votes

----------------------------------------------------------------------------
LEMMA InitInv == Init => IInv
<1> SUFFICES ASSUME Init PROVE IInv
  OBVIOUS
<1>1. TypeOK
  BY EmptyList, ArchitectureAssumption DEF Init, TypeOK, Label
<1>2. CountsRight
  <2>1. \A a : Seen(a) = {}
    BY DEF Init, Seen
  <2> QED
    BY <2>1, FS_EmptySet DEF Init, CountsRight
<1>3. RangeRight /\ PhasesRight /\ MajorityWins
  BY DEF Init, RangeRight, PhasesRight, MajorityWins
<1> QED
  BY <1>1, <1>2, <1>3 DEF IInv

LEMMA BeginStep ==
    ASSUME IInv, NEW a \in Label, buildDeployOptions(a)
    PROVE  IInv'
<1> USE DEF buildDeployOptions
<1>1. TypeOK'
  BY EmptyList, ArchitectureAssumption DEF IInv, TypeOK, Label
<1>2. CountsRight'
  <2>1. \A b : Seen(b)' = {}
    BY DEF Seen
  <2>2. \A b : Cardinality(Seen(b)') = 0
    BY <2>1, FS_EmptySet
  <2>3. \A b \in Arches : archCounts'[b] = 0 /\ archCounts'[b] <= schedulableNodes'
    OBVIOUS
  <2> QED
    BY <2>2, <2>3 DEF CountsRight
<1>3. RangeRight' /\ PhasesRight'
  BY DEF RangeRight, PhasesRight
<1>4. MajorityWins'
  BY DEF MajorityWins
<1> QED
  BY <1>1, <1>2, <1>3, <1>4 DEF IInv

LEMMA ListFailsStep ==
    ASSUME IInv, ListFails
    PROVE  IInv'
<1> USE DEF ListFails, Return, countVars, rangeVars
<1>1. TypeOK'
  BY ArchitectureAssumption DEF IInv, TypeOK, Label
<1>2. CountsRight' /\ RangeRight' /\ PhasesRight'
  BY DEF IInv, CountsRight, Seen, Arch, RangeRight, PhasesRight
<1>3. MajorityWins'
  <2>1. \A a : Votes(a)' = 0
    <3>1. listed' = <<>>
      BY DEF IInv, PhasesRight
    <3>2. \A a : Labelled(a)' = {}
      BY <3>1, EmptyList DEF Labelled
    <3> QED
      BY <3>2, FS_EmptySet DEF Votes
  <2> QED
    BY <2>1, ArchitectureAssumption DEF MajorityWins
<1> QED
  BY <1>1, <1>2, <1>3 DEF IInv

LEMMA ListStep ==
    ASSUME IInv, NEW nodes \in NodeLists, List(nodes)
    PROVE  IInv'
<1> USE DEF List, Goto, countVars, rangeVars
<1>1. counted = {}
  BY DEF IInv, PhasesRight
<1>2. TypeOK'
  BY <1>1 DEF IInv, TypeOK
<1>3. CountsRight'
  <2>1. \A a : Seen(a)' = {} /\ Seen(a) = {}
    BY <1>1 DEF Seen
  <2> QED
    BY <2>1 DEF IInv, CountsRight
<1>4. RangeRight' /\ PhasesRight' /\ MajorityWins'
  BY DEF IInv, RangeRight, PhasesRight, MajorityWins
<1> QED
  BY <1>2, <1>3, <1>4 DEF IInv

LEMMA CountStep ==
    ASSUME IInv, NEW n \in Nodes, countNode(n)
    PROVE  IInv'
<1> USE DEF countNode, rangeVars
<1>1. TypeOK'
  <2>1. schedulableNodes' \in Nat /\ archCounts' \in [Arches -> Nat]
    <3>1. CASE listed[n].unschedulable
      BY <3>1 DEF IInv, TypeOK
    <3>2. CASE ~listed[n].unschedulable
      BY <3>2 DEF IInv, TypeOK
    <3> QED
      BY <3>1, <3>2
  <2> QED
    BY <2>1 DEF IInv, TypeOK
<1>2. CountsRight'
  <2> SUFFICES ASSUME NEW a \in Arches
               PROVE  /\ archCounts'[a] = Cardinality(Seen(a)')
                      /\ archCounts'[a] <= schedulableNodes'
    BY DEF CountsRight
  <2>1. TypeOK /\ CountsRight
    BY DEF IInv
  <2>2. /\ IsFiniteSet(Seen(a)) /\ Cardinality(Seen(a)) \in Nat
        /\ n \notin Seen(a)
    BY <2>1, SeenFinite DEF Seen
  <2>3. /\ archCounts[a] = Cardinality(Seen(a))
        /\ archCounts[a] <= schedulableNodes
        /\ archCounts[a] \in Nat /\ schedulableNodes \in Nat
    BY <2>1 DEF CountsRight, TypeOK
  <2>4. CASE listed[n].unschedulable
    <3>1. Seen(a)' = Seen(a)
      BY <2>4 DEF Seen, Arch
    <3> QED
      BY <2>3, <2>4, <3>1
  <2>5. CASE ~listed[n].unschedulable /\ Arch(n) = a
    <3>1. Seen(a)' = Seen(a) \cup {n}
      BY <2>5 DEF Seen, Arch
    <3>2. Cardinality(Seen(a)') = Cardinality(Seen(a)) + 1
      BY <2>2, <3>1, FS_AddElement
    <3>3. archCounts'[a] = archCounts[a] + 1
      BY <2>5
    <3> QED
      BY <2>3, <2>5, <3>2, <3>3
  <2>6. CASE ~listed[n].unschedulable /\ Arch(n) # a
    <3>1. Seen(a)' = Seen(a)
      BY <2>6 DEF Seen, Arch
    <3>2. archCounts'[a] = archCounts[a] + 0
      BY <2>6
    <3> QED
      BY <2>3, <2>6, <3>1, <3>2
  <2> QED
    BY <2>4, <2>5, <2>6
<1>3. RangeRight' /\ PhasesRight' /\ MajorityWins'
  BY DEF IInv, RangeRight, PhasesRight, MajorityWins
<1> QED
  BY <1>1, <1>2, <1>3 DEF IInv

LEMMA NothingCountedStep ==
    ASSUME IInv, NothingCounted
    PROVE  IInv'
<1> USE DEF NothingCounted, Return, countVars, rangeVars
<1>1. TypeOK'
  BY ArchitectureAssumption DEF IInv, TypeOK, Label
<1>2. CountsRight' /\ RangeRight' /\ PhasesRight'
  BY DEF IInv, CountsRight, Seen, Arch, RangeRight, PhasesRight
<1>3. MajorityWins'
  <2>1. \A a \in Arches : archCounts[a] = 0
    BY DEF IInv, TypeOK, CountsRight
  <2>2. \A a \in Arches : Votes(a) = 0
    BY <2>1, VotesCounted DEF IInv
  <2>3. \A a \in Arches : Votes(a)' = 0
    BY <2>2 DEF Votes, Labelled, Arch
  <2> QED
    BY <2>3, ArchitectureAssumption DEF MajorityWins
<1> QED
  BY <1>1, <1>2, <1>3 DEF IInv

LEMMA SomeCountedStep ==
    ASSUME IInv, SomeCounted
    PROVE  IInv'
<1> USE DEF SomeCounted, Goto, countVars, rangeVars
<1>1. TypeOK'
  BY DEF IInv, TypeOK
<1>2. CountsRight' /\ RangeRight' /\ PhasesRight' /\ MajorityWins'
  BY DEF IInv, CountsRight, Seen, Arch, RangeRight, PhasesRight, MajorityWins
<1> QED
  BY <1>1, <1>2 DEF IInv

LEMMA RangeStep ==
    ASSUME IInv, NEW a \in Arches, findMajorityArchitecture(a)
    PROVE  IInv'
<1> USE DEF findMajorityArchitecture, countVars
<1>1. /\ TypeOK
      /\ archCounts[a] \in Nat /\ maxCount \in Nat
      /\ a # None
  BY ArchitectureAssumption DEF IInv, TypeOK
<1>2. TypeOK'
  BY <1>1 DEF TypeOK, Label
<1>3. RangeRight'
  <2>1. \A b \in ranged : archCounts[b] \in Nat /\ archCounts[b] <= maxCount
    BY <1>1 DEF IInv, RangeRight, TypeOK
  <2>2. CASE archCounts[a] > maxCount
    BY <1>1, <2>1, <2>2 DEF RangeRight
  <2>3. CASE ~(archCounts[a] > maxCount)
    BY <1>1, <2>1, <2>3 DEF IInv, RangeRight
  <2> QED
    BY <2>2, <2>3
<1>4. CountsRight' /\ PhasesRight' /\ MajorityWins'
  BY DEF IInv, CountsRight, Seen, Arch, PhasesRight, MajorityWins
<1> QED
  BY <1>2, <1>3, <1>4 DEF IInv

LEMMA MajorityFoundStep ==
    ASSUME IInv, MajorityFound
    PROVE  IInv'
<1> USE DEF MajorityFound, Return, countVars, rangeVars
<1>1. TypeOK /\ CountsRight /\ RangeRight /\ counted = DOMAIN listed
  BY DEF IInv, PhasesRight
<1>2. PICK b \in Arches : archCounts[b] > 0
  BY DEF IInv, PhasesRight
<1>3. b \in ranged
  BY <1>2
<1>4. majorityArch \in Arches /\ majorityArch # None
  BY <1>1, <1>3, ArchitectureAssumption DEF RangeRight, TypeOK, Label
<1>5. \A a \in Arches : archCounts[a] <= maxCount
  <2> SUFFICES ASSUME NEW a \in Arches PROVE archCounts[a] <= maxCount
    OBVIOUS
  <2>1. CASE a \in ranged
    BY <1>1, <2>1 DEF RangeRight
  <2>2. CASE a \notin ranged
    BY <1>1, <2>2 DEF TypeOK
  <2> QED
    BY <2>1, <2>2
<1>6. archCounts[majorityArch] = maxCount
  BY <1>1, <1>4 DEF RangeRight
<1>7. TypeOK'
  BY <1>1, <1>4 DEF TypeOK
<1>8. CountsRight' /\ RangeRight' /\ PhasesRight'
  BY DEF IInv, CountsRight, Seen, Arch, RangeRight, PhasesRight
<1>9. MajorityWins'
  <2>1. \A a \in Arches : Votes(a) = archCounts[a] /\ Votes(a)' = Votes(a)
    BY <1>1, VotesCounted DEF Votes, Labelled, Arch
  <2>2. \A a \in Arches : Votes(a)' = archCounts[a]
    BY <2>1
  <2>3. arch' = majorityArch
    OBVIOUS
  <2>4. \A a \in Arches : Votes(a)' <= Votes(majorityArch)'
    BY <2>2, <1>4, <1>5, <1>6
  <2>5. ~ \A a \in Arches : Votes(a)' = 0
    BY <2>2, <1>1, <1>2 DEF TypeOK
  <2> QED
    BY <1>4, <2>3, <2>4, <2>5 DEF MajorityWins
<1> QED
  BY <1>7, <1>8, <1>9 DEF IInv

LEMMA Stutter ==
    ASSUME IInv, UNCHANGED vars
    PROVE  IInv'
BY DEF IInv, vars, TypeOK, CountsRight, Seen, Arch, RangeRight, PhasesRight,
       MajorityWins, Votes, Labelled

(* The invariant holds in every state. *)
THEOREM Invariant == Spec => []IInv
<1>1. IInv /\ [Next]_vars => IInv'
  BY BeginStep, ListFailsStep, ListStep, CountStep, NothingCountedStep,
     SomeCountedStep, RangeStep, MajorityFoundStep, Stutter DEF Next
<1> QED
  BY InitInv, <1>1, PTL DEF Spec

(* Every variable of detectClusterArchitecture keeps its type, and a        *)
(* deployment always gets an architecture.                                 *)
THEOREM TypeCorrect == Spec => []TypeOK
<1>1. IInv => TypeOK
  BY DEF IInv
<1> QED
  BY Invariant, <1>1, PTL

(* A deployment that names no architecture gets one that no other outvotes *)
(* among the schedulable nodes, the default when none has a label: for any *)
(* cluster, and whatever order the nodes and the map of the counts are     *)
(* gone through in (detectClusterArchitecture, findMajorityArchitecture).  *)
THEOREM MajorityAlwaysWins == Spec => []MajorityWins
<1>1. IInv => MajorityWins
  BY DEF IInv
<1> QED
  BY Invariant, <1>1, PTL

============================================================================
