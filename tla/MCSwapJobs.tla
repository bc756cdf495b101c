------------------------------ MODULE MCSwapJobs ------------------------------
(***************************************************************************)
(* Small instances of SwapJobs.                                            *)
(***************************************************************************)
EXTENDS SwapJobs, TLC

Symmetry == Permutations(Slots) \cup Permutations(Workers)
=============================================================================
