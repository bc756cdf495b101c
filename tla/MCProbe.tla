------------------------------ MODULE MCProbe ------------------------------
(***************************************************************************)
(* Small instances of Probe.                                               *)
(***************************************************************************)
EXTENDS Probe
=============================================================================
