---------------------------- MODULE MCKubeconfig ----------------------------
(* Small instances of Kubeconfig for TLC. *)
EXTENDS Kubeconfig, TLC

CONSTANTS c1, c2, c3  \* callers

SameCallers == Permutations(Callers)

============================================================================
