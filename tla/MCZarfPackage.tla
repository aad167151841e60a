--------------------------- MODULE MCZarfPackage ---------------------------
(* Small instances of ZarfPackage for TLC. *)
EXTENDS ZarfPackageRefinement, TLC

CONSTANTS
    s1, s2,           \* specs
    h1, h2,           \* their hashes
    p, q,             \* package names
    name,             \* metadata.name
    d1, d2,           \* deployment goroutines
    MaxDisturbances   \* bound on disturbances

VARIABLE disturbances  \* edits, removals by hand and faults so far

mcvars == <<vars, disturbances>>

(* An edit that keeps the package's name, and one that changes it. *)
SameName == [s \in Specs |-> p]
OtherName == [s \in Specs |-> IF s = s1 THEN p ELSE q]
HashOf == [s \in Specs |-> IF s = s1 THEN h1 ELSE h2]

SameSlots == Permutations(Deployments)

(* With SameName the two specs, each with its hash, may be exchanged too.  *)
SwapSpecs == s1 :> s2 @@ s2 :> s1 @@ h1 :> h2 @@ h2 :> h1
Symmetry == SameSlots \cup {f @@ SwapSpecs : f \in SameSlots}

MCInit == Init /\ disturbances = 0

(* Nothing is installed when the resource is created: no adoption.         *)
CleanInit == MCInit /\ NothingInstalled

(* The resource is gone, or blocked by an interrupted creation, and the    *)
(* last goroutine has ended: nothing is left to do.                        *)
AtRest ==
    /\ pc = "idle"
    /\ \A d \in Deployments : IsFree(d)
    /\ api # None => api.created = "pending"
    /\ UNCHANGED mcvars

(* At most MaxDisturbances of them. *)
BoundedNext ==
    \/ (System \/ User \/ CooldownElapses)
       /\ UNCHANGED disturbances
    \/ Disturbance
       /\ disturbances < MaxDisturbances
       /\ disturbances' = disturbances + 1
    \/ AtRest

BoundedSpec == MCInit /\ [][BoundedNext]_mcvars

CleanSpec == CleanInit /\ [][BoundedNext]_mcvars

FairCleanSpec == CleanSpec /\ Fairness

============================================================================
