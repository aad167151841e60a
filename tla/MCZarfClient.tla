---------------------------- MODULE MCZarfClient ----------------------------
(* Small instances of ZarfClient for TLC. *)
EXTENDS ZarfClient, TLC

CONSTANTS c1, c2, c3  \* calls

SameCalls == Permutations(Calls)

============================================================================
