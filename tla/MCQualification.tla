--------------------------- MODULE MCQualification ---------------------------
(***************************************************************************)
(* Small instances of Qualification.                                       *)
(***************************************************************************)
EXTENDS Qualification
=============================================================================
