------------------------------ MODULE MCPayouts ------------------------------
(***************************************************************************)
(* Small instances of Payouts.  The symmetric sets are used only in runs   *)
(* without liveness properties.                                            *)
(***************************************************************************)
EXTENDS Payouts, TLC

Symmetry == Permutations(Tokens) \cup Permutations(Workers) \cup Permutations(Hashes)
=============================================================================
