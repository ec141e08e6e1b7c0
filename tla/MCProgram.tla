----------------------------- MODULE MCProgram -----------------------------
(***************************************************************************)
(* A configuration whose map is empty.                                     *)
(***************************************************************************)
EXTENDS Program
=============================================================================
