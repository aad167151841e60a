--------------------------- MODULE MCArchitecture ---------------------------
(* Small instances of Architecture for TLC. *)
EXTENDS Architecture, TLC

CONSTANTS n1, n2, n3  \* nodes

SameNodes == Permutations(Nodes)

============================================================================
