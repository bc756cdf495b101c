----------------------------- MODULE MCCheckQueue -----------------------------
(***************************************************************************)
(* Small instances of CheckQueue, with all rows at one provider host.      *)
(***************************************************************************)
EXTENDS CheckQueue, TLC

CONSTANT h1
OneHost == [p \in Proxies |-> h1]
Symmetry == Permutations(Proxies) \cup Permutations(HealthWorkers)
               \cup Permutations(EarnappWorkers)
=============================================================================
