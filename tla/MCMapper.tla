------------------------------ MODULE MCMapper ------------------------------
(***************************************************************************)
(* Three watchers, so that a failure can have watchers before and behind   *)
(* it, and two addresses, so that the address can change and change back   *)
(* while a failure is pending.                                             *)
(***************************************************************************)
EXTENDS Mapper
=============================================================================
